---------------------------- MODULE Spec2Model ----------------------------
(***************************************************************************)
(* Model of the mc-printer build scheduler (src/index.js, buildImage and   *)
(* buildGif with the draw / gif / stop / chunk / commands / settings       *)
(* command handlers) and of the colour matcher (getBlockFromColor).        *)
(*                                                                         *)
(* JavaScript runs one callback at a time, so an action of this model is   *)
(* the code that runs between two suspension points (await) of a handler.  *)
(* A build suspends at an actuator call (actions.placeBlock / clearBlock)  *)
(* and at bot.waitForTicks(1); a draw / gif handler suspends at loadImage. *)
(* Commands arrive from the readline 'line' listener and from the boss     *)
(* chat listener; neither waits for a command that is still running.       *)
(***************************************************************************)
EXTENDS Integers, Sequences, FiniteSets, TLC

VARIABLES
    settings,   \* settings.json object: chunkSize, commands, mode, color
    printData,  \* the printData object of src/index.js:537-546
    task,       \* bot.task, the list of task names shown by display()
    jobs,       \* one draw / gif handler invocation per command source, with
                \* the number of tick waits its current build has completed
    ops,        \* voxel operations each invocation has issued: <<frame, x, z, y>>
    stopInfo,   \* what an accepted stop command saw of each running build
    resizes,    \* how many times the chunk size has been set by a command
    palettes,   \* palettes.json: palette name -> sequence of swatches
    call,       \* the last call of the function under study and what it returned
    mesh,       \* the buildModel invocation and blocksPlaced of model-builder.js
    manager     \* the CommandManager: its commands and aliasToName maps

vars == <<settings, printData, task, jobs, ops, stopInfo, resizes, palettes, call, mesh,
         manager>>

(***************************************************************************)
(* Bounds of the model.                                                    *)
(***************************************************************************)
MaxWidth  == 4
MaxHeight == 3
MaxChunk  == 3
MaxFrames == 2
MaxSpacing == 2

\* Smaller bounds for the runs in which two commands are in progress at once.
RaceWidth  == 2
RaceHeight == 2
RaceChunk  == 2
RaceFrames == 1
MaxResizes == 1

\* Colour channels take the values 0..MaxChannel; a stored palette has at
\* most MaxSwatches swatches.
MaxChannel  == 1
MaxSwatches == 2

\* The two places a command can come from: reader.on('line') and bot.on('chat').
Sources == {"console", "chat"}

\* The worked example of the specification: a 4x3 grid with chunk size 2.
Example == [w |-> 4, h |-> 3, c |-> 2]

(***************************************************************************)
(* printData bookkeeping.                                                  *)
(***************************************************************************)
IdlePrintData ==
    [isPrinting |-> FALSE, currentTask |-> "null", cancelRequested |-> FALSE,
     placedBlocks |-> 0, totalBlocks |-> 0]

UpdatePrintProgress(pd, completed, total) ==
    [pd EXCEPT !.placedBlocks = completed, !.totalBlocks = total]

StartPrintTask(pd, name, totalBlocks) ==
    UpdatePrintProgress(
        [pd EXCEPT !.isPrinting = TRUE, !.currentTask = name,
                   !.cancelRequested = FALSE],
        0, totalBlocks)

FinishPrintTask(pd, cancelled) ==
    LET shown == IF ~cancelled /\ pd.totalBlocks > 0
                 THEN UpdatePrintProgress(pd, pd.totalBlocks, pd.totalBlocks)
                 ELSE pd
    IN  [shown EXCEPT !.isPrinting = FALSE, !.currentTask = "null",
                      !.cancelRequested = FALSE, !.placedBlocks = 0,
                      !.totalBlocks = 0]

PushTask(tk, taskName) == Append(tk, taskName)

\* The closure pushTask returns: remove the last occurrence of taskName.
RemoveTask(tk, taskName) ==
    LET hits == {i \in 1..Len(tk) : tk[i] = taskName}
    IN  IF hits = {} THEN tk
        ELSE LET index == CHOOSE i \in hits : \A k \in hits : k <= i
             IN  [i \in 1..(Len(tk) - 1) |-> IF i < index THEN tk[i] ELSE tk[i + 1]]

(***************************************************************************)
(* The loop nest of buildImage / buildGif.  A machine state m holds the    *)
(* locals of one invocation (m.job) and the shared objects it writes.      *)
(***************************************************************************)
IdleJob ==
    [pc |-> "idle", kind |-> "none", w |-> 0, h |-> 0, n |-> 0, i |-> 0,
     x |-> 0, z |-> 0, zDirection |-> 1, xx |-> 0, cancelled |-> FALSE,
     ticks |-> 0, result |-> "none",
     first |-> 0, spacing |-> 1, y |-> 0, returned |-> <<>>]

TaskName(kind) == IF kind = "draw" THEN "Image build" ELSE "GIF frame"

\* Slip: the last row is left out.
RowInRangeShort(z, height) == z >= 0 /\ z < height - 1

\* while (z >= 0 && z < size[1] ...)
RowInRange(z, height) == z >= 0 /\ z < height

\* Slip: the chunk-row takes one column too many.
ColumnInChunkOffByOne(xx, x, chunkSize, width) == xx <= chunkSize /\ x + xx < width

\* for (xx = 0; xx < settings.chunkSize && x + xx < size[0]; xx++)
ColumnInChunk(xx, x, chunkSize, width) == xx < chunkSize /\ x + xx < width

\* Slip: the row always advances upwards, whatever the direction.
NextRowUp(z, zDirection) == z + 1

\* z += zDirection, after the tick wait of a chunk-row
NextRow(z, zDirection) == z + zDirection

\* Slip: every chunk starts again at row 0.
TurnRowReset(z, zDirection) == 0

\* zDirection = -zDirection; z += zDirection, after the while loop of a chunk
TurnRow(z, zDirection) == z + (-zDirection)

\* Slip: the for loop does not advance to the next chunk.
NextChunkStuck(x, chunkSize) == x

\* Slip: x++ in place of x += settings.chunkSize.
NextChunkByOne(x, chunkSize) == x + 1

\* x += settings.chunkSize
NextChunk(x, chunkSize) == x + chunkSize

\* The handler invocation is over: its locals and its log of issued
\* operations are gone, only the outcome remains for the source to see.
Settle(m, outcome) ==
    [m EXCEPT !.job = [IdleJob EXCEPT !.result = outcome], !.ops = <<>>]

\* The one member of a set of one; the loop operators below bind their
\* machine state through it so that it is worked out once.
Only(S) == CHOOSE member \in S : TRUE

\* Slip: the frame is raised by its index in the image, not by its place in
\* the selected list.
FrameHeightByIndex(i, frameIndex, spacing) == frameIndex * spacing

\* gif handler: framePosition = basePosition.offset(0, i * spacing, 0), as
\* blocks above basePosition.
FrameHeight(i, frameIndex, spacing) == i * spacing

RECURSIVE ForLoop(_), WhileLoop(_), InnerLoop(_, _), Finally(_), StartBuild(_)

\* try { ... } finally { finishPrintTask({ cancelled }); removeTask(); }
\* return { cancelled }, and what the calling handler does with the result:
\* the gif handler starts the next frame unless the frame was cancelled.
Finally(state) ==
    Only({ (
          LET J    == m.job
              done == [m EXCEPT !.pd = FinishPrintTask(m.pd, J.cancelled),
                                !.task = RemoveTask(m.task, J.kind)]
          IN  IF ~J.cancelled /\ J.kind = "gif" /\ J.i + 1 < J.n
              THEN StartBuild([done EXCEPT
                                 !.job.i = J.i + 1,
                                 !.job.y = FrameHeight(J.i + 1, J.first + J.i + 1,
                                                       J.spacing),
                                 !.job.returned = Append(J.returned, J.cancelled)])
              ELSE Settle(done, IF J.cancelled THEN "cancelled" ELSE "completed")
           ) : m \in {state} })

\* The for loop over the columns of a chunk-row from index xx on, up to the
\* next await (an actuator call, or the tick wait that ends the chunk-row).
InnerLoop(state, xx) ==
    Only({ (
          LET J == m.job
          IN  IF ColumnInChunk(xx, J.x, settings.chunkSize, J.w)
              THEN IF m.pd.cancelRequested
                   THEN \* cancelled = true; break; if (cancelled) break;
                        WhileLoop([m EXCEPT !.job.cancelled = TRUE, !.job.xx = xx])
                   ELSE LET issued == [m EXCEPT !.ops = Append(m.ops, <<J.i, J.x + xx, J.z, J.y>>),
                                                !.job.xx = xx]
                        IN  IF settings.commands
                            THEN \* bot.chat('/setblock ...') does not suspend
                                 InnerLoop([issued EXCEPT !.pd =
                                               UpdatePrintProgress(m.pd, m.pd.placedBlocks + 1,
                                                                   J.w * J.h)],
                                           xx + 1)
                            ELSE [issued EXCEPT !.job.pc = "op"]
              ELSE [m EXCEPT !.job.pc = "tick", !.job.xx = xx]
           ) : m \in {state} })

\* The head of the while loop over the rows of a chunk; when it ends, the
\* direction turns and the for loop advances to the next chunk.
WhileLoop(state) ==
    Only({ (
          LET J == m.job
          IN  IF RowInRange(J.z, J.h) /\ ~J.cancelled
              THEN InnerLoop(m, 0)
              ELSE ForLoop([m EXCEPT !.job.zDirection = -J.zDirection,
                                     !.job.z = TurnRow(J.z, J.zDirection),
                                     !.job.x = NextChunk(J.x, settings.chunkSize)])
           ) : m \in {state} })

\* The head of the for loop over chunks.
ForLoop(state) ==
    Only({ (
          LET J == m.job
          IN  IF J.x < J.w /\ ~J.cancelled
              THEN WhileLoop(m)
              ELSE Finally(m)
           ) : m \in {state} })

\* buildImage / buildGif up to its first await.
StartBuild(state) ==
    Only({ (
          LET J == m.job
          IN  ForLoop([m EXCEPT !.task = PushTask(m.task, J.kind),
                                !.pd = StartPrintTask(m.pd, TaskName(J.kind), J.w * J.h),
                                !.job.x = 0, !.job.z = 0, !.job.zDirection = 1,
                                !.job.xx = 0, !.job.cancelled = FALSE, !.job.ticks = 0])
           ) : m \in {state} })

Machine(s) == [job |-> jobs[s], pd |-> printData, task |-> task, ops |-> ops[s]]

NoStop == [seen |-> FALSE, late |-> FALSE, frame |-> 0, early |-> FALSE]

Commit(s, m) ==
    /\ jobs' = [jobs EXCEPT ![s] = m.job]
    /\ printData' = m.pd
    /\ task' = m.task
    /\ ops' = [ops EXCEPT ![s] = m.ops]
    /\ stopInfo' = [stopInfo EXCEPT ![s] =
                        IF m.job.pc = "idle" THEN NoStop
                        ELSE IF jobs[s].pc = "load" THEN @
                        ELSE [@ EXCEPT !.early = FALSE]]

Running(s) == jobs[s].pc \in {"op", "tick"}

\* The voxel operations source s has issued for frame f, in order.
FrameOps(s, f) == SelectSeq(ops[s], LAMBDA o : o[1] = f)

\* The voxels of its current build that source s has finished processing.
Processed(s) ==
    Len(FrameOps(s, jobs[s].i)) - (IF jobs[s].pc = "op" THEN 1 ELSE 0)

(***************************************************************************)
(* palettes.json and the palette argument of a command.                    *)
(***************************************************************************)
Channels == 0..MaxChannel

Colours == Channels \X Channels \X Channels

\* Swatch records as palettes.json holds them.
SwatchPool ==
    { [block |-> "white", average |-> <<1, 1, 1>>, dominant |-> <<1, 1, 0>>],
      [block |-> "snow",  average |-> <<1, 1, 1>>, dominant |-> <<1, 1, 1>>],
      [block |-> "coal",  average |-> <<0, 0, 0>>, dominant |-> <<0, 1, 0>>] }

PaletteNames == {"a", "b"}

\* A palette key after split('+'): one or two names, known or not.
PaletteKeys ==
    LET names == PaletteNames \cup {"missing"}
    IN  {<<n>> : n \in names} \cup {<<n, m>> : n \in names, m \in names}

SeqsUpTo(S, n) == UNION {[1..k -> S] : k \in 1..n}

\* The palettes the console runs with while it builds.
StoredPalettes ==
    [name \in PaletteNames |->
        << CHOOSE sw \in SwatchPool : sw.block = (IF name = "a" THEN "white" ELSE "coal") >>]

\* Slip: only the first name of the key is looked up.
FirstNameKnown(pals, key) == key[1] \in DOMAIN pals

\* resolvePaletteArgument: parts.filter((part) => !palettes[part]) is empty
PaletteKnown(pals, key) == \A k \in 1..Len(key) : key[k] \in DOMAIN pals

\* The palette arguments tried while two commands are in progress.
RaceKeys == {<<"a">>, <<"a", "missing">>}

(***************************************************************************)
(* Command handlers.                                                       *)
(***************************************************************************)
\* The handler threw before its first await; the command manager reports it.
Rejected(message) == [IdleJob EXCEPT !.result = message]

\* The value of a --origin or --offset flag as typed: the flag left out,
\* given without value, the word undefined, or a text that splits on commas
\* into tokens.  A token is an optional ~ and a rest that is empty,
\* a number or something else.
FlagValue(kind, tokens) == [kind |-> kind, tokens |-> tokens]

Absent == FlagValue("absent", <<>>)

Token(tilde, rest, value) == [tilde |-> tilde, rest |-> rest, value |-> value]

RawFlags ==
    { Absent,
      FlagValue("bare", <<>>),
      FlagValue("undefined", <<>>),
      FlagValue("text", <<Token(FALSE, "number", 1), Token(FALSE, "number", 2),
                          Token(FALSE, "number", 3)>>),
      FlagValue("text", <<Token(TRUE, "", 0), Token(TRUE, "number", 1),
                          Token(FALSE, "number", 2)>>),
      FlagValue("text", <<Token(FALSE, "number", 1), Token(FALSE, "number", 2)>>),
      FlagValue("text", <<Token(FALSE, "other", 0), Token(FALSE, "number", 2),
                          Token(FALSE, "number", 3)>>) }

\* normalizeFlagValue: the text 'undefined' becomes the value undefined,
\* which flags[name] then holds as if the flag had been left out.
NormalizeFlagValue(value) == IF value.kind = "undefined" THEN Absent ELSE value

\* extractFlags, for the two vector flags
ExtractFlags(origin, offset) ==
    [origin |-> NormalizeFlagValue(origin), offset |-> NormalizeFlagValue(offset)]

NoFlags == ExtractFlags(Absent, Absent)

InvalidVector == [ok |-> FALSE, at |-> <<0, 0, 0>>]

\* One coordinate of parseVectorFlag is accepted.
CoordinateOk(token, allowRelative) ==
    IF allowRelative /\ token.tilde
    THEN token.rest \in {"", "number"}
    ELSE ~token.tilde /\ token.rest = "number"

\* parseVectorFlag(value, { baseVector, allowRelative })
ParseVectorFlag(value, baseVector, allowRelative) ==
    IF value.kind = "bare" THEN InvalidVector
    ELSE IF Len(value.tokens) # 3 THEN InvalidVector
    ELSE IF \E k \in 1..3 : ~CoordinateOk(value.tokens[k], allowRelative) THEN InvalidVector
    ELSE [ok |-> TRUE,
          at |-> [k \in 1..3 |->
                    IF value.tokens[k].tilde
                    THEN baseVector[k] + value.tokens[k].value
                    ELSE value.tokens[k].value]]

\* determineBasePosition(flags, botInstance)
DetermineBasePosition(flags, botPosition) ==
    LET origin == IF flags.origin # Absent
                  THEN ParseVectorFlag(flags.origin, botPosition, TRUE)
                  ELSE [ok |-> TRUE, at |-> botPosition]
        offset == IF flags.offset # Absent
                  THEN ParseVectorFlag(flags.offset, <<0, 0, 0>>, FALSE)
                  ELSE [ok |-> TRUE, at |-> <<0, 0, 0>>]
    IN  IF ~origin.ok \/ ~offset.ok THEN InvalidVector
        ELSE [ok |-> TRUE, at |-> [k \in 1..3 |-> origin.at[k] + offset.at[k]]]

\* bot.entity.position when a command arrives.
BotPosition == <<0, 0, 0>>

\* draw <image> <palette> <width>x<height> [--origin x,y,z] [--offset x,y,z]:
\* runs up to `await loadImage`, or throws in resolvePaletteArgument or in
\* determineBasePosition.
CmdDrawAt(s, key, w, h, flags) ==
    /\ jobs[s].pc = "idle"
    /\ jobs' = [jobs EXCEPT ![s] =
                   IF ~PaletteKnown(palettes, key)
                   THEN Rejected("Unknown palette(s)")
                   ELSE IF ~DetermineBasePosition(flags, BotPosition).ok
                   THEN Rejected("Invalid vector")
                   ELSE [IdleJob EXCEPT !.pc = "load", !.kind = "draw",
                                        !.w = w, !.h = h, !.n = 1]]
    /\ UNCHANGED <<settings, printData, task, ops, stopInfo, resizes, palettes, call, mesh, manager>>

\* draw without vector flags
CmdDraw(s, key, w, h) == CmdDrawAt(s, key, w, h, NoFlags)

\* gif <image> [palette] [size] [--frames n] [--origin x,y,z] [--offset x,y,z]:
\* runs up to `await loadImage`, or throws in resolvePaletteArgument or in
\* determineBasePosition.
\* The selected list is the n frames from index `first` on (--frame k selects
\* the one frame k - 1, --frames n the first n), `spacing` blocks apart.
CmdGifFrames(s, key, w, h, n, flags, first, spacing) ==
    /\ jobs[s].pc = "idle"
    /\ jobs' = [jobs EXCEPT ![s] =
                   IF ~PaletteKnown(palettes, key)
                   THEN Rejected("Unknown palette(s)")
                   ELSE IF ~DetermineBasePosition(flags, BotPosition).ok
                   THEN Rejected("Invalid vector")
                   ELSE [IdleJob EXCEPT !.pc = "load", !.kind = "gif",
                                        !.w = w, !.h = h, !.n = n,
                                        !.first = first, !.spacing = spacing,
                                        !.y = FrameHeight(0, first, spacing)]]
    /\ UNCHANGED <<settings, printData, task, ops, stopInfo, resizes, palettes, call, mesh, manager>>

\* gif without --frame and --spacing
CmdGifAt(s, key, w, h, n, flags) == CmdGifFrames(s, key, w, h, n, flags, 0, 1)

\* gif without vector flags
CmdGif(s, key, w, h, n) == CmdGifAt(s, key, w, h, n, NoFlags)

\* loadImage resolves: the handler calls buildImage, or buildGif for frame 0.
\* What loadImage can settle with: the shape of the decoded pixels, or no
\* image at all (<<>>) when the source cannot be read or decoded.
Unreadable == <<>>

Shapes ==
    {Unreadable, <<2, 2>>, <<1, 1, 4>>, <<1, 1, 1, 4>>, <<2, 1, 1, 4>>, <<1, 1, 1, 1, 4>>}

\* Slip: any shape is taken for a static image.
SupportedAlways(shape) == TRUE

\* getImageDimensions: shape.length === 3 || shape.length === 4
Supported(shape) == Len(shape) \in {3, 4}

\* getImageDimensions(image).frames
FramesOf(shape) == IF Len(shape) = 4 THEN shape[1] ELSE 1

\* The error the handler ends with once loadImage has settled, or "none".
LoadError(kind, shape) ==
    IF shape = Unreadable THEN "Unable to load image"
    ELSE IF ~Supported(shape) THEN "Unsupported image format."
    ELSE IF kind = "draw" /\ FramesOf(shape) > 1 THEN "Animated images detected."
    ELSE IF kind = "gif" /\ FramesOf(shape) <= 1 THEN "No animation frames detected."
    ELSE "none"

\* loadImage settles: the handler throws, or it calls buildImage, or
\* buildGif for frame 0.
ImageArrives(s, shape) ==
    /\ jobs[s].pc = "load"
    /\ IF LoadError(jobs[s].kind, shape) = "none"
       THEN Commit(s, StartBuild(Machine(s)))
       ELSE /\ jobs' = [jobs EXCEPT ![s] = Rejected(LoadError(jobs[s].kind, shape))]
            /\ stopInfo' = [stopInfo EXCEPT ![s] = NoStop]
            /\ UNCHANGED <<printData, task, ops>>
    /\ UNCHANGED <<settings, resizes, palettes, call, mesh, manager>>

\* loadImage resolves with an image of the kind the command is for.
ImageLoaded(s) ==
    ImageArrives(s, IF jobs[s].kind = "gif" THEN <<2, 1, 1, 4>> ELSE <<1, 1, 4>>)

\* actions.placeBlock / clearBlock resolves: count the voxel, go on.
OpReturns(s) ==
    /\ jobs[s].pc = "op"
    /\ LET J == jobs[s]
           m == [Machine(s) EXCEPT !.pd =
                    UpdatePrintProgress(printData, printData.placedBlocks + 1,
                                        J.w * J.h)]
       IN  Commit(s, InnerLoop(m, J.xx + 1))
    /\ UNCHANGED <<settings, resizes, palettes, call, mesh, manager>>

\* actions.placeBlock / clearBlock rejects: the finally block runs and the
\* command manager reports the error.
OpThrows(s) ==
    /\ jobs[s].pc = "op"
    /\ LET J == jobs[s]
           m == [Machine(s) EXCEPT !.pd = FinishPrintTask(printData, J.cancelled),
                                   !.task = RemoveTask(task, J.kind)]
       IN  Commit(s, Settle(m, "error"))
    /\ UNCHANGED <<settings, resizes, palettes, call, mesh, manager>>

\* bot.waitForTicks(1) resolves: z += zDirection, back to the while loop.
TickReturns(s) ==
    /\ jobs[s].pc = "tick"
    /\ LET J == jobs[s]
           m == [Machine(s) EXCEPT !.job.z = NextRow(J.z, J.zDirection),
                                   !.job.ticks = J.ticks + 1]
       IN  Commit(s, WhileLoop(m))
    /\ UNCHANGED <<settings, resizes, palettes, call, mesh, manager>>

\* Slip: stop is taken whatever printData holds.
StopAppliesAlways(pd) == TRUE

\* stop: neither 'No active build to cancel.' nor 'Cancellation already
\* requested.'
StopApplies(pd) == pd.isPrinting /\ ~pd.cancelRequested

\* stop: sets cancelRequested for an active build, and otherwise only logs.
\* stopInfo keeps what the command saw: the progress of a running build, or
\* that it came before the build of a loading image had started (kept until
\* that build returns from its first await).
CmdStop ==
    /\ IF StopApplies(printData)
       THEN /\ printData' = [printData EXCEPT !.cancelRequested = TRUE]
            /\ stopInfo' = [s \in Sources |->
                              IF Running(s) /\ ~stopInfo[s].seen
                              THEN [stopInfo[s] EXCEPT
                                      !.seen = TRUE,
                                      !.late = Processed(s) = jobs[s].w * jobs[s].h,
                                      !.frame = jobs[s].i]
                              ELSE stopInfo[s]]
       ELSE /\ printData' = printData
            /\ stopInfo' = [s \in Sources |->
                              IF jobs[s].pc = "load" /\ ~printData.isPrinting
                              THEN [stopInfo[s] EXCEPT !.early = TRUE]
                              ELSE stopInfo[s]]
    /\ mesh' = [mesh EXCEPT !.stopped = @ \/ mesh.pc \in {"load", "tick"}]
    /\ UNCHANGED <<settings, task, jobs, ops, resizes, palettes, call, manager>>

\* chunk <size>
CmdChunk(value) ==
    /\ resizes < MaxResizes
    /\ resizes' = resizes + 1
    /\ settings' = [settings EXCEPT !.chunkSize = value]
    /\ UNCHANGED <<printData, task, jobs, ops, stopInfo, palettes, call, mesh, manager>>

\* commands on|off
CmdCommands(state) ==
    /\ settings' = [settings EXCEPT !.commands = state]
    /\ UNCHANGED <<printData, task, jobs, ops, stopInfo, resizes, palettes, call, mesh, manager>>

\* settings chunkSize <n>  and  settings commands <on|off>
CmdSettings(key, value) ==
    /\ key \in {"chunkSize", "commands"}
    /\ IF key = "chunkSize"
       THEN resizes < MaxResizes /\ resizes' = resizes + 1
       ELSE UNCHANGED resizes
    /\ settings' = [settings EXCEPT ![key] = value]
    /\ UNCHANGED <<printData, task, jobs, ops, stopInfo, palettes, call, mesh, manager>>

(***************************************************************************)
(* The command registry: CommandManager.register and find.                 *)
(***************************************************************************)
MaxAliases == 2

\* What a definition can give as its name or an alias, and what find can be
\* asked for.
Texts == {"a", "A", "b", "c"}

\* definition.name when the definition has none.
NoName == "undefined"

\* What find returns when it finds nothing: undefined.
NoCommand == [name |-> NoName, aliases |-> <<>>]

\* String.prototype.toLowerCase
ToLowerCase(text) == IF text = "A" THEN "a" ELSE text

\* Sequences over S of at most n members.
SeqUpTo(S, n) == UNION {[1..k -> S] : k \in 0..n}

\* The definition objects handed to register: handler tells whether
\* definition.handler is a function.
Definitions ==
    [name : Texts \cup {NoName, ""}, aliases : SeqUpTo(Texts, MaxAliases),
     handler : BOOLEAN]

\* new CommandManager(): both maps empty; thrown is what the last call of
\* register threw, if it threw.
NewManager == [commands |-> <<>>, aliasToName |-> <<>>, thrown |-> "none"]

\* map.set(key, value)
MapSet(map, key, value) ==
    [k \in DOMAIN map \cup {key} |-> IF k = key THEN value ELSE map[k]]

\* for (const alias of aliases) this.aliasToName.set(alias, name)
RECURSIVE SetAliases(_, _, _)
SetAliases(map, aliases, name) ==
    IF aliases = <<>> THEN map
    ELSE SetAliases(MapSet(map, Head(aliases), name), Tail(aliases), name)

\* Slip: a definition without handler is taken as it is.
MissingHandlerAccepted(definition) == FALSE

\* typeof definition.handler !== 'function'
MissingHandler(definition) == ~definition.handler

\* The checks of register, in the order of the code; "none" when all pass.
RegisterError(mgr, definition) ==
    LET name == IF definition.name = NoName THEN NoName
                ELSE ToLowerCase(definition.name)
        aliases == [k \in DOMAIN definition.aliases |->
                       ToLowerCase(definition.aliases[k])]
    IN  IF name \in {NoName, ""} THEN "Command definition must include a name."
        ELSE IF name \in DOMAIN mgr.commands THEN "Command is already registered."
        ELSE IF \E k \in DOMAIN aliases : aliases[k] \in DOMAIN mgr.aliasToName
        THEN "Alias is already registered."
        ELSE IF MissingHandler(definition) THEN "Command is missing a handler."
        ELSE "none"

\* The manager after register(definition) has returned or thrown.
Registered(mgr, definition) ==
    LET error == RegisterError(mgr, definition)
        name == ToLowerCase(definition.name)
        aliases == [k \in DOMAIN definition.aliases |->
                       ToLowerCase(definition.aliases[k])]
        command == [name |-> name, aliases |-> aliases]
    IN  IF error = "none"
        THEN [commands |-> MapSet(mgr.commands, name, command),
              aliasToName |-> SetAliases(mgr.aliasToName, aliases, name),
              thrown |-> "none"]
        ELSE [mgr EXCEPT !.thrown = error]

\* register(definition)
Register(definition) ==
    /\ manager' = Registered(manager, definition)
    /\ UNCHANGED <<settings, printData, task, jobs, ops, stopInfo, resizes, palettes,
                   call, mesh>>

\* find(name): the command of that name or alias, or undefined.
Find(mgr, text) ==
    IF text \in {NoName, ""} THEN NoCommand
    ELSE LET lowered == ToLowerCase(text)
         IN  IF lowered \in DOMAIN mgr.commands THEN mgr.commands[lowered]
             ELSE IF lowered \in DOMAIN mgr.aliasToName
             THEN mgr.commands[mgr.aliasToName[lowered]]
             ELSE NoCommand

(***************************************************************************)
(* Specifications.                                                         *)
(***************************************************************************)
\* No model command has been given; blocksPlaced of model-builder.js is 0.
IdleMesh ==
    [pc |-> "idle", file |-> <<>>, texture |-> <<>>, position |-> <<0, 0, 0>>,
     size |-> 0, buildType |-> "none", next |-> 0, lookups |-> 0,
     blocksPlaced |-> 0, log |-> <<>>, stopped |-> FALSE]

NoCall == [made |-> FALSE]

InitBuild(chunkSizes) ==
    /\ settings \in [chunkSize : chunkSizes, commands : BOOLEAN,
                     mode : {"RGB"}, color : {"average"}]
    /\ printData = IdlePrintData
    /\ task = <<>>
    /\ jobs = [s \in Sources |-> IdleJob]
    /\ ops = [s \in Sources |-> <<>>]
    /\ stopInfo = [s \in Sources |-> NoStop]
    /\ resizes = 0
    /\ palettes = StoredPalettes
    /\ call = NoCall
    /\ mesh = IdleMesh
    /\ manager = NewManager

\* The whole console: both command sources, every command.
Init == InitBuild(1..RaceChunk)

Build(s) ==
    \/ ImageLoaded(s)
    \/ OpReturns(s)
    \/ OpThrows(s)
    \/ TickReturns(s)

Next ==
    \/ \E s \in Sources, key \in RaceKeys, w \in 1..RaceWidth, h \in 1..RaceHeight :
          CmdDraw(s, key, w, h)
    \/ \E s \in Sources, key \in RaceKeys, w \in 1..RaceWidth, h \in 1..RaceHeight,
          n \in 1..RaceFrames :
          CmdGif(s, key, w, h, n)
    \/ \E s \in Sources : Build(s)
    \/ CmdStop
    \/ \E value \in 1..RaceChunk : CmdChunk(value)
    \/ \E state \in BOOLEAN : CmdCommands(state)
    \/ \E value \in 1..RaceChunk : CmdSettings("chunkSize", value)
    \/ \E state \in BOOLEAN : CmdSettings("commands", state)

Spec == Init /\ [][Next]_vars

\* One command at a time from the console, the chunk size left alone.
InitFixed == InitBuild(1..MaxChunk)

NextFixed ==
    \/ \E key \in PaletteKeys, w \in 1..MaxWidth, h \in 1..MaxHeight :
          CmdDraw("console", key, w, h)
    \/ \E key \in PaletteKeys, w \in 1..MaxWidth, h \in 1..MaxHeight, n \in 1..MaxFrames :
          CmdGif("console", key, w, h, n)
    \/ \E origin \in RawFlags, offset \in RawFlags :
          CmdDrawAt("console", <<"a">>, 1, 1, ExtractFlags(origin, offset))
    \/ \E origin \in RawFlags, offset \in RawFlags :
          CmdGifAt("console", <<"a">>, 1, 1, 1, ExtractFlags(origin, offset))
    \/ \E n \in 1..MaxFrames, first \in 0..1, spacing \in 1..MaxSpacing :
          CmdGifFrames("console", <<"a">>, 1, 1, IF first = 0 THEN n ELSE 1, NoFlags,
                       first, spacing)
    \/ \E shape \in Shapes : ImageArrives("console", shape)
    \/ Build("console")
    \/ CmdStop
    \/ \E state \in BOOLEAN : CmdCommands(state)
    \/ \E state \in BOOLEAN : CmdSettings("commands", state)

SpecFixed == InitFixed /\ [][NextFixed]_vars

\* No build issues more operations than this: each of its at most w chunks
\* sweeps h rows of at most RaceChunk columns, once per frame.
OpsCap(s) == jobs[s].w * jobs[s].h * jobs[s].n * RaceChunk

\* A step of the build of source s.
LiveBuild(s) == Len(ops[s]) <= OpsCap(s) /\ Build(s)

\* The console builds, by /setblock or by hand, while stop and chunk arrive
\* at any time;
\* every image load, actuator call and tick wait eventually settles.
NextLive ==
    \/ \E w \in 1..RaceWidth, h \in 1..RaceHeight : CmdDraw("console", <<"a">>, w, h)
    \/ \E w \in 1..RaceWidth, h \in 1..RaceHeight, n \in 1..RaceFrames :
          CmdGif("console", <<"a">>, w, h, n)
    \/ LiveBuild("console")
    \/ CmdStop
    \/ \E value \in 1..RaceChunk : CmdChunk(value)

SpecLive == Init /\ [][NextLive]_vars /\ WF_vars(LiveBuild("console"))

\* A registry filled by any calls of register.
InitRegister ==
    /\ settings = [chunkSize |-> 1, commands |-> TRUE, mode |-> "RGB", color |-> "average"]
    /\ printData = IdlePrintData
    /\ task = <<>>
    /\ jobs = [s \in Sources |-> IdleJob]
    /\ ops = [s \in Sources |-> <<>>]
    /\ stopInfo = [s \in Sources |-> NoStop]
    /\ resizes = 0
    /\ palettes = StoredPalettes
    /\ call = NoCall
    /\ mesh = IdleMesh
    /\ manager = NewManager

NextRegister == \E definition \in Definitions : Register(definition)

SpecRegister == InitRegister /\ [][NextRegister]_vars

(***************************************************************************)
(* The chat listener: bot.on('chat', (username, message) => ...).          *)
(***************************************************************************)
\* Who can speak in the game chat; includes() compares names exactly, so
\* "Boss" is not "boss".
Users == {"boss", "Boss", "guest"}

\* The command texts a chat message can hold.
ChatCommands ==
    {[name |-> "draw", w |-> 1, h |-> 2], [name |-> "gif", w |-> 1, h |-> 1],
     [name |-> "stop"], [name |-> "chunk", value |-> 2],
     [name |-> "commands", value |-> TRUE], [name |-> "commands", value |-> FALSE]}

\* Slip: the listener lets every sender through.
BossesIncludeAnyone(bosses, username) == TRUE

\* settings.bosses.includes(username)
BossesInclude(bosses, username) == username \in bosses

\* runCommand(commandText): commandManager.execute runs the handler of the
\* command the text names.
RunCommand(s, cmd) ==
    CASE cmd.name = "draw" -> CmdDraw(s, <<"a">>, cmd.w, cmd.h)
      [] cmd.name = "gif" -> CmdGif(s, <<"a">>, cmd.w, cmd.h, MaxFrames)
      [] cmd.name = "stop" -> CmdStop
      [] cmd.name = "chunk" -> CmdChunk(cmd.value)
      [] cmd.name = "commands" -> CmdCommands(cmd.value)

\* A chat event: the listener returns at once unless the sender is one of
\* settings.bosses, and otherwise runs the message as a command.  call keeps
\* the sender of the last message the listener returned on.
ChatMessage(username, cmd) ==
    IF BossesInclude(settings.bosses, username)
    THEN RunCommand("chat", cmd)
    ELSE /\ call' = [made |-> TRUE, username |-> username]
         /\ UNCHANGED <<settings, printData, task, jobs, ops, stopInfo, resizes,
                        palettes, mesh, manager>>

\* settings.json lists no boss, one, or two.
InitChat ==
    /\ settings \in [chunkSize : {1}, commands : BOOLEAN, mode : {"RGB"},
                     color : {"average"}, bosses : SUBSET {"boss", "guest"}]
    /\ printData = IdlePrintData
    /\ task = <<>>
    /\ jobs = [s \in Sources |-> IdleJob]
    /\ ops = [s \in Sources |-> <<>>]
    /\ stopInfo = [s \in Sources |-> NoStop]
    /\ resizes = 0
    /\ palettes = StoredPalettes
    /\ call = NoCall
    /\ mesh = IdleMesh
    /\ manager = NewManager

NextChat ==
    \/ \E username \in Users, cmd \in ChatCommands : ChatMessage(username, cmd)
    \/ Build("chat")

SpecChat == InitChat /\ [][NextChat]_vars

(***************************************************************************)
(* The colour matcher: parsePaletteString and getBlockFromColor.           *)
(***************************************************************************)
\* colourDistances.rgb: a weighted Euclidean distance (compared squared).
ColorDistanceRGB(c1, c2) ==
    2 * (c1[1] - c2[1]) * (c1[1] - c2[1])
  + 4 * (c1[2] - c2[2]) * (c1[2] - c2[2])
  + 3 * (c1[3] - c2[3]) * (c1[3] - c2[3])

\* antiColor.rgb2lab: lightness and two opponent axes, in integer units.
Rgb2Lab(c) == <<2 * c[1] + 7 * c[2] + c[3], 5 * (c[1] - c[2]), 2 * (c[2] - c[3])>>

\* antiColor.deltaE of the two converted colours (compared squared).
ColorDistanceLAB(c1, c2) ==
    LET p == Rgb2Lab(c1)
        q == Rgb2Lab(c2)
    IN  (p[1] - q[1]) * (p[1] - q[1]) + (p[2] - q[2]) * (p[2] - q[2])
      + (p[3] - q[3]) * (p[3] - q[3])

\* Slip: a swatch already in the result is not added again.
PushSwatchesOnce(palette, swatches) ==
    palette \o SelectSeq(swatches, LAMBDA sw : \A k \in 1..Len(palette) : palette[k] # sw)

\* palette.push(...palettes[paletteName])
PushSwatches(palette, swatches) == palette \o swatches

\* for (const paletteName of paletteString.split('+')): the swatches of the
\* named palettes in the order of the names; unknown names are skipped.
ParsePaletteString(pals, key) ==
    LET RECURSIVE From(_, _)
        From(k, palette) ==
            IF k > Len(key) THEN palette
            ELSE From(k + 1, IF key[k] \in DOMAIN pals
                             THEN PushSwatches(palette, pals[key[k]])
                             ELSE palette)
    IN  From(1, <<>>)

\* mode.toUpperCase() === 'LAB' || settings.mode === 'LAB'
UsesLab(st, mode) == mode = "lab" \/ mode = "LAB" \/ st.mode = "LAB"

\* What reading past the end of the image data gives.
Undefined == -1

\* What a distance computed from an undefined channel is.
NaN == -1

Distance(st, mode, c1, c2) ==
    IF Undefined \in {c1[1], c1[2], c1[3]} THEN NaN
    ELSE IF UsesLab(st, mode) THEN ColorDistanceLAB(c1, c2) ELSE ColorDistanceRGB(c1, c2)

\* Slip: the comparison is turned around.
KeepFarther(distanceA, distanceB) ==
    distanceA # NaN /\ distanceB # NaN /\ distanceA > distanceB

\* best = distanceA < distanceB ? best : swatch
\* (a comparison with NaN is false)
KeepBest(distanceA, distanceB) ==
    distanceA # NaN /\ distanceB # NaN /\ distanceA < distanceB

\* for (const swatch of palette.slice(1)) { ... }, returning the index of best
ScanPalette(st, mode, rgb, palette, best) ==
    LET RECURSIVE From(_, _)
        From(k, b) ==
            IF k > Len(palette) THEN b
            ELSE From(k + 1,
                      IF KeepBest(Distance(st, mode, rgb, palette[b][st.color]),
                                  Distance(st, mode, rgb, palette[k][st.color]))
                      THEN b ELSE k)
    IN  From(2, best)

\* Slip: a palette of one swatch is treated like an empty one.
EmptyOrSinglePalette(palette) == Len(palette) <= 1

\* if (!palette.length) return 'air'
EmptyPalette(palette) == Len(palette) = 0

\* Slip: the alpha test is left out.
TransparentNever(alpha) == FALSE

\* if (alpha === 0) return 'air'
Transparent(alpha) == alpha = 0

\* getBlockFromColor(bot, [r, g, b, alpha], palette, mode) for a palette key
GetBlockFromColor(st, pals, sample, key, mode) ==
    LET palette == ParsePaletteString(pals, key)
        rgb     == <<sample[1], sample[2], sample[3]>>
    IN  IF EmptyPalette(palette) THEN "air"
        ELSE IF Transparent(sample[4]) THEN "air"
        ELSE palette[ScanPalette(st, mode, rgb, palette, 1)].block

\* How many colour distances that call computes: two per swatch after the
\* first, none when it returns before the scan.
DistanceCalls(pals, sample, key) ==
    LET palette == ParsePaletteString(pals, key)
    IN  IF EmptyPalette(palette) \/ Transparent(sample[4]) THEN 0
        ELSE 2 * (Len(palette) - 1)

\* bot.colors.getBlock(color, palette, mode), applied to the pending call
GetBlock ==
    /\ ~call.made
    /\ call' = [call EXCEPT !.made = TRUE,
                            !.palette = ParsePaletteString(palettes, call.key),
                            !.distances = DistanceCalls(palettes, call.sample, call.key),
                            !.block = GetBlockFromColor(settings, palettes, call.sample,
                                                        call.key, call.mode)]
    /\ UNCHANGED <<settings, printData, task, jobs, ops, stopInfo, resizes, palettes, mesh, manager>>

\* Alpha values of a sample: clear, faint and opaque.
Alphas == {0, 1, 255}

Samples == {<<c[1], c[2], c[3], alpha>> : c \in Colours, alpha \in Alphas}

\* The settings, the stored palettes and the arguments of the call are inputs.
InitColor ==
    /\ settings \in [chunkSize : {1}, commands : {TRUE},
                     mode : {"RGB", "LAB"}, color : {"average", "dominant"}]
    /\ printData = IdlePrintData
    /\ task = <<>>
    /\ jobs = [s \in Sources |-> IdleJob]
    /\ ops = [s \in Sources |-> <<>>]
    /\ stopInfo = [s \in Sources |-> NoStop]
    /\ resizes = 0
    /\ \E first \in SeqsUpTo(SwatchPool, MaxSwatches), second \in SeqsUpTo(SwatchPool, 1) :
          palettes = [name \in PaletteNames |-> IF name = "a" THEN first ELSE second]
    /\ call \in [made : {FALSE}, sample : Samples, key : PaletteKeys,
                 mode : {"rgb", "lab"}, palette : {<<>>}, distances : {0},
                 block : {"none"}]
    /\ mesh = IdleMesh
    /\ manager = NewManager

NextColor == GetBlock

SpecColor == InitColor /\ [][NextColor]_vars

(***************************************************************************)
(* The image sampler: getBlock of src/index.js, which reads one pixel of   *)
(* the decoded image (an ndarray) and hands it to bot.colors.getBlock.     *)
(***************************************************************************)
\* An image is at most MaxPixels wide and one pixel high and holds at most
\* MaxData values; a build grid is at most MaxGrid wide.
MaxPixels == 2
MaxGrid   == 2
MaxData   == 8

\* The values a stored channel takes.
PixelValues == {0, 255}

\* image.get(...): the ndarray reads data[offset] without a bounds check.
DataAt(image, offset) ==
    IF offset < Len(image.data) THEN image.data[offset + 1] ELSE Undefined

\* image.get(px, pz, channel) on a [width, height, channels] image
StaticGet(image, px, pz, channel) ==
    DataAt(image, image.channels * (px + image.width * pz) + channel)

\* image.get(t, px, pz, channel) on a [frames, width, height, channels] image
FrameGet(image, t, px, pz, channel) ==
    DataAt(image, image.channels * (px + image.width * (pz + image.height * t)) + channel)

\* a ?? b
Coalesce(a, b) == IF a = Undefined THEN b ELSE a

\* Math.floor(extent * x) for the coordinate x = at[1] / at[2]
PixelIndex(extent, at) == (extent * at[1]) \div at[2]

\* The [r, g, b, alpha] that getBlock reads at (x, z) of frame t.
ReadPixel(image, x, z, gif, t) ==
    LET px == PixelIndex(image.width, x)
        pz == PixelIndex(image.height, z)
    IN  IF ~gif
        THEN << StaticGet(image, px, pz, 0), StaticGet(image, px, pz, 1),
                StaticGet(image, px, pz, 2),
                Coalesce(StaticGet(image, px, pz, 3), StaticGet(image, px, pz, 2)) >>
        ELSE << FrameGet(image, t, px, pz, 0), FrameGet(image, t, px, pz, 1),
                FrameGet(image, t, px, pz, 2),
                Coalesce(FrameGet(image, t, px, pz, 3), 255) >>

\* getBlock(image, x, z, palette, gif, t), applied to the pending call
SampleBlock ==
    /\ ~call.made
    /\ LET sample == ReadPixel(call.image, call.x, call.z, call.gif, call.t)
       IN  call' = [call EXCEPT !.made = TRUE,
                                !.px = PixelIndex(call.image.width, call.x),
                                !.pz = PixelIndex(call.image.height, call.z),
                                !.sample = sample,
                                !.block = GetBlockFromColor(settings, palettes, sample,
                                                            call.key, "rgb")]
    /\ UNCHANGED <<settings, printData, task, jobs, ops, stopInfo, resizes, palettes, mesh, manager>>

\* How many values an image holds: frames (1 if static) * width * channels.
DataLength(f, w, c) == (IF f = 0 THEN 1 ELSE f) * w * c

\* Decoded images of at most MaxData values: frames = 0 for a static image,
\* whose shape has 3 axes; an animated one has at least 2 frames.
Images ==
    UNION {[frames : {f}, width : {w}, height : {1}, channels : {c},
            data : [1..DataLength(f, w, c) -> PixelValues]] :
           <<f, w, c>> \in {q \in ({0} \cup 2..MaxFrames) \X (1..MaxPixels) \X {3, 4} :
                               DataLength(q[1], q[2], q[3]) <= MaxData}}

\* Coordinates k / size: those a build of width size passes for its columns
\* k < size, and 1.0 (k = size).
Coordinates == {q \in (0..MaxGrid) \X (1..MaxGrid) : q[1] <= q[2]}

\* The image, the coordinates, the frame and the palette key are inputs.
InitSample ==
    /\ settings = [chunkSize |-> 1, commands |-> TRUE, mode |-> "RGB", color |-> "average"]
    /\ printData = IdlePrintData
    /\ task = <<>>
    /\ jobs = [s \in Sources |-> IdleJob]
    /\ ops = [s \in Sources |-> <<>>]
    /\ stopInfo = [s \in Sources |-> NoStop]
    /\ resizes = 0
    /\ palettes = StoredPalettes
    /\ \E image \in Images, x \in Coordinates, key \in {<<"a">>, <<"a", "b">>} :
          \E t \in 0..(IF image.frames = 0 THEN 0 ELSE image.frames - 1) :
             call = [made |-> FALSE, image |-> image, x |-> x, z |-> <<0, 1>>,
                     gif |-> image.frames > 0, t |-> t, key |-> key,
                     px |-> 0, pz |-> 0, sample |-> <<>>, block |-> "none"]
    /\ mesh = IdleMesh
    /\ manager = NewManager

NextSample == SampleBlock

SpecSample == InitSample /\ [][NextSample]_vars

(***************************************************************************)
(* The mesh rasterizer of src/model-builder.js.  Points are <<x, y, z>>    *)
(* with integer coordinates; a UV pair is <<un, vn, q>>, standing for      *)
(* (un / q, vn / q).  A line of squared length d2 is sampled at            *)
(* t = i / sqrt(d2); floors of values at such t are computed exactly, by   *)
(* comparing squares.                                                      *)
(***************************************************************************)
\* The square of Math.max(1, distanceBetweenPoints(a, b))
Distance2(a, b) ==
    LET sum == (a[1] - b[1]) * (a[1] - b[1]) + (a[2] - b[2]) * (a[2] - b[2])
             + (a[3] - b[3]) * (a[3] - b[3])
    IN  IF sum < 1 THEN 1 ELSE sum

\* for (let i = 0; i < distance; i++): how many times the body runs
StepCount(d2) == Cardinality({i \in 0..d2 : i * i < d2})

\* l * sqrt(d2) <= y, for integers l, y
ScaledAtMost(l, y, d2) ==
    IF l <= 0 THEN y >= 0 \/ l * l * d2 >= y * y
    ELSE y >= 0 /\ l * l * d2 <= y * y

\* Math.floor(extent * lerp(an / q, bn / q, i / sqrt(d2)))
FloorLerp(extent, an, bn, q, i, d2) ==
    LET x  == extent * an
        y  == extent * (bn - an) * i
        lo == (IF an < bn THEN x ELSE extent * bn) \div q
        hi == (IF an < bn THEN extent * bn ELSE x) \div q
    IN  CHOOSE k \in lo..hi :
            /\ ScaledAtMost(k * q - x, y, d2)
            /\ ~ScaledAtMost((k + 1) * q - x, y, d2)

\* The length of an edge that runs along an axis (or has length 0).
WholeLength(a, b) == CHOOSE n \in 1..Distance2(a, b) : n * n = Distance2(a, b)

\* lerp3D(a, b, i / n) for such an edge: a whole point
PointOnEdge(a, b, i, n) ==
    [axis \in 1..3 |-> a[axis] + ((b[axis] - a[axis]) * i) \div n]

\* lerp2D(uvA, uvB, i / n), over the denominator q * n
UVOnEdge(uvA, uvB, i, n) ==
    << uvA[1] * n + (uvB[1] - uvA[1]) * i, uvA[2] * n + (uvB[2] - uvA[2]) * i, uvA[3] * n >>

\* The same UV pair over the denominator q * n.
Widen(uv, n) == << uv[1] * n, uv[2] * n, uv[3] * n >>

\* The iterations of buildLine(pointA, pointB, texture, [uvA, uvB]): the
\* floored point of each and the UV it samples, kept as the interpolation
\* it comes from.  uvA and uvB have the same denominator.
LineSamples(pointA, pointB, uvA, uvB) ==
    LET d2 == Distance2(pointA, pointB)
    IN  [step \in 1..StepCount(d2) |->
            [point |-> [axis \in 1..3 |->
                          FloorLerp(1, pointA[axis], pointB[axis], 1, step - 1, d2)],
             uvA |-> uvA, uvB |-> uvB, i |-> step - 1, d2 |-> d2]]

\* One sequence out of a sequence of sequences.
RECURSIVE Flatten(_)
Flatten(seqs) == IF seqs = <<>> THEN <<>> ELSE Head(seqs) \o Flatten(Tail(seqs))

\* buildTriangle: a fan of lines from the points of edge A-B to C.
TriangleSamples(pointA, pointB, pointC, uvA, uvB, uvC) ==
    LET n == WholeLength(pointA, pointB)
    IN  Flatten([step \in 1..n |->
                    LineSamples(PointOnEdge(pointA, pointB, step - 1, n), pointC,
                                UVOnEdge(uvA, uvB, step - 1, n), Widen(uvC, n))])

\* buildQuad: the triangles (A, B, C) and (C, D, A).
QuadSamples(pointA, pointB, pointC, pointD, uv) ==
    TriangleSamples(pointA, pointB, pointC, uv[1], uv[2], uv[3])
    \o TriangleSamples(pointC, pointD, pointA, uv[3], uv[4], uv[1])

\* A face reference without a '/<uv-index>' part.
NoIndex == 0

\* parseModelData: the rows of the file, by kind.  Indices are kept as the
\* code keeps them, counted from 0; a reference without UV index gets 0.
ParseModelData(rows) ==
    LET vRows  == SelectSeq(rows, LAMBDA row : row.kind = "v")
        vtRows == SelectSeq(rows, LAMBDA row : row.kind = "vt")
        fRows  == SelectSeq(rows, LAMBDA row : row.kind = "f")
    IN  [size     |-> 1,
         vertices |-> [k \in 1..Len(vRows) |-> vRows[k].at],
         vts      |-> [k \in 1..Len(vtRows) |-> vtRows[k].at],
         faces    |-> [f \in 1..Len(fRows) |->
                         [k \in 1..Len(fRows[f].refs) |-> fRows[f].refs[k].v - 1]],
         uvs      |-> [f \in 1..Len(fRows) |->
                         [k \in 1..Len(fRows[f].refs) |->
                             IF fRows[f].refs[k].vt # NoIndex
                             THEN fRows[f].refs[k].vt - 1
                             ELSE 0]]]

\* position.offset(vertex.x * scale, vertex.y * scale, vertex.z * scale)
ScaledVertex(position, vertex, scale) ==
    [axis \in 1..3 |-> position[axis] + vertex[axis] * scale]

\* model.vts[vtIndex] || [0, 0]
VtOrZero(model, vtIndex) ==
    IF vtIndex + 1 \in 1..Len(model.vts)
    THEN << model.vts[vtIndex + 1][1], model.vts[vtIndex + 1][2], 1 >>
    ELSE << 0, 0, 1 >>

\* const faceUVs = model.uvs[index].map(...)
FaceUVs(model, index) ==
    [k \in 1..Len(model.uvs[index]) |-> VtOrZero(model, model.uvs[index][k])]

\* for (let k = 0; k < face.length - 1; k++): the edges drawn after the fill
EdgeCount(face) == Len(face) - 1

Tagged(samples, index, part, edge) ==
    [k \in 1..Len(samples) |->
        [face |-> index, part |-> part, edge |-> edge, point |-> samples[k].point,
         uvA |-> samples[k].uvA, uvB |-> samples[k].uvB, i |-> samples[k].i,
         d2 |-> samples[k].d2]]

\* Slip: the edges of a face are drawn before its fill.
FaceSamplesEdgesFirst(model, position, scale, index) ==
    LET face == [k \in 1..Len(model.faces[index]) |->
                    ScaledVertex(position, model.vertices[model.faces[index][k] + 1], scale)]
        uv   == FaceUVs(model, index)
        fill == IF Len(face) = 3
                THEN TriangleSamples(face[1], face[2], face[3], uv[1], uv[2], uv[3])
                ELSE IF Len(face) = 4
                THEN QuadSamples(face[1], face[2], face[3], face[4], uv)
                ELSE <<>>
    IN  Flatten([k \in 1..EdgeCount(face) |->
                   Tagged(LineSamples(face[k], face[k + 1], uv[k], uv[k + 1]),
                          index, "edge", k)])
        \o Tagged(fill, index, "fill", 0)

\* One pass of the face loop of buildModel: the fill, then the edges.
FaceSamples(model, position, scale, index) ==
    LET face == [k \in 1..Len(model.faces[index]) |->
                    ScaledVertex(position, model.vertices[model.faces[index][k] + 1], scale)]
        uv   == FaceUVs(model, index)
        fill == IF Len(face) = 3
                THEN TriangleSamples(face[1], face[2], face[3], uv[1], uv[2], uv[3])
                ELSE IF Len(face) = 4
                THEN QuadSamples(face[1], face[2], face[3], face[4], uv)
                ELSE <<>>
    IN  Tagged(fill, index, "fill", 0)
        \o Flatten([k \in 1..EdgeCount(face) |->
                      Tagged(LineSamples(face[k], face[k + 1], uv[k], uv[k + 1]),
                             index, "edge", k)])

\* Every sample of a full build, in the order buildModel takes them.
MeshSamples(model, position, size) ==
    Flatten([index \in 1..Len(model.faces) |->
                FaceSamples(model, position, (1 \div model.size) * size, index)])

Clamp(value, last) == IF value < 0 THEN 0 ELSE IF value > last THEN last ELSE value

\* getTextureColor(texture, uv) for the UV of a sample
GetTextureColor(texture, sample) ==
    LET q == sample.uvA[3]
        x == Clamp(FloorLerp(texture.width, sample.uvA[1], sample.uvB[1], q,
                             sample.i, sample.d2), texture.width - 1)
        y == Clamp(FloorLerp(texture.height, q - sample.uvA[2], q - sample.uvB[2], q,
                             sample.i, sample.d2), texture.height - 1)
    IN  << StaticGet(texture, x, y, 0), StaticGet(texture, x, y, 1),
           StaticGet(texture, x, y, 2),
           IF texture.channels > 3 THEN StaticGet(texture, x, y, 3) ELSE 255 >>

\* The palette bot.colors.getBlock falls back to when it is given none.
DefaultPalette == "zero-gravity"

\* getBlockFromUV(bot, texture, uv)
GetBlockFromUV(st, pals, texture, sample) ==
    GetBlockFromColor(st, pals, GetTextureColor(texture, sample), <<DefaultPalette>>, "rgb")

(***************************************************************************)
(* buildModel as a process.  It waits for the texture, then for one tick   *)
(* per the rule of setBlock (or per vertex in points mode); between two    *)
(* waits it runs without interruption.  One invocation at a time is        *)
(* followed.  Positions are held in halves of a block so that the base     *)
(* position may lie between two blocks; a full build is given whole ones.  *)
(***************************************************************************)
MaxPlaced == 1
MaxScale == 2

Row(kind, at) == [kind |-> kind, at |-> at]
Ref(v, vt) == [v |-> v, vt |-> vt]
Face(refs) == [kind |-> "f", refs |-> refs]

\* OBJ files: a face on one vertex twice, without UV indices; a quad with UV
\* indices; two triangles on the same four vertices.
FileDot ==
    << Row("v", <<0, 0, 0>>), Row("vt", <<1, 0>>),
       Face(<<Ref(1, NoIndex), Ref(1, NoIndex)>>) >>

FileQuad ==
    << Row("v", <<0, 0, 0>>), Row("v", <<1, 0, 0>>), Row("v", <<1, 0, 1>>),
       Row("v", <<0, 0, 1>>), Row("vt", <<0, 0>>), Row("vt", <<1, 0>>),
       Face(<<Ref(1, 1), Ref(2, 2), Ref(3, 2), Ref(4, 1)>>) >>

FileTwo ==
    << Row("v", <<0, 0, 0>>), Row("v", <<1, 0, 0>>), Row("v", <<1, 0, 1>>),
       Row("v", <<0, 0, 1>>), Row("vt", <<0, 0>>), Row("vt", <<1, 0>>),
       Face(<<Ref(1, 1), Ref(2, 2), Ref(3, 2)>>),
       Face(<<Ref(3, 2), Ref(4, 1), Ref(1, NoIndex)>>) >>

MeshFiles == {FileDot, FileQuad, FileTwo}

\* Textures as loadImage returns them: one white texel without alpha; an
\* opaque black texel beside a clear one.
TexWhite == [frames |-> 0, width |-> 1, height |-> 1, channels |-> 3,
             data |-> <<255, 255, 255>>]

TexSplit == [frames |-> 0, width |-> 2, height |-> 1, channels |-> 4,
             data |-> <<0, 0, 0, 255, 0, 0, 0, 0>>]

Textures == {TexWhite, TexSplit}

\* Base positions in halves: the block corner (0, 0, 0) and (0.5, 0, -0.5).
BasePositions == {<<0, 0, 0>>, <<1, 0, -1>>}

IsWhole(position) == \A axis \in 1..3 : position[axis] % 2 = 0

Whole(position) == [axis \in 1..3 |-> position[axis] \div 2]

\* The palettes the model builder runs with.
MeshPalettes ==
    [name \in {"a", DefaultPalette} |->
        IF name = "a" THEN StoredPalettes["a"]
        ELSE << CHOOSE sw \in SwatchPool : sw.block = "white",
                CHOOSE sw \in SwatchPool : sw.block = "coal" >>]

\* setBlock: if (blockType === 'air' || blockType === 'cave_air') return
SkipsBlock(blockType) == blockType \in {"air", "cave_air"}

\* setBlock: if (blocksPlaced % bot.settings.chunkSize === 0) await waitForTicks(1)
WaitsForTick(st, placed) == placed % st.chunkSize = 0

\* Slip: the vertex is not scaled.
VertexMarkerUnscaled(position, vertex, scale) ==
    [point |-> [axis \in 1..3 |-> (position[axis] + 2 * vertex[axis]) \div 2],
     block |-> "light_blue_concrete"]

\* points mode: position.offset(vertex * scale).floor(), light_blue_concrete
VertexMarker(position, vertex, scale) ==
    [point |-> [axis \in 1..3 |-> (position[axis] + 2 * vertex[axis] * scale) \div 2],
     block |-> "light_blue_concrete"]

\* Slip: the loops give up once a stop has been requested.
MeshContinuesUnlessStopped(pd, next, length) == next <= length /\ ~pd.cancelRequested

\* The loop conditions of buildModel and buildLine: none looks at printData.
MeshContinues(pd, next, length) == next <= length

\* The samples of the invocation m, in order (none in points mode).
MeshPlan(m) ==
    IF m.buildType = "points" THEN <<>>
    ELSE MeshSamples(ParseModelData(m.file), Whole(m.position), m.size)

RECURSIVE FullRun(_, _, _, _)
\* The full build from sample m.next up to its next wait or its return.
FullRun(st, pd, pals, m) ==
    LET plan == MeshPlan(m)
    IN  IF ~MeshContinues(pd, m.next, Len(plan)) THEN [m EXCEPT !.pc = "done"]
        ELSE LET sample == plan[m.next]
                 block  == GetBlockFromUV(st, pals, m.texture, sample)
                 looked == [m EXCEPT !.lookups = @ + 1]
                 issued == [looked EXCEPT !.log = Append(@,
                              [face |-> sample.face, part |-> sample.part,
                               edge |-> sample.edge, point |-> sample.point,
                               block |-> block])]
             IN  IF SkipsBlock(block)
                 THEN FullRun(st, pd, pals, [looked EXCEPT !.next = @ + 1])
                 ELSE IF WaitsForTick(st, issued.blocksPlaced)
                 THEN [issued EXCEPT !.pc = "tick"]
                 ELSE FullRun(st, pd, pals,
                              [issued EXCEPT !.blocksPlaced = @ + 1, !.next = @ + 1])

\* The points build from vertex m.next: one marker, then a tick.
PointsRun(pd, m) ==
    LET model == ParseModelData(m.file)
    IN  IF ~MeshContinues(pd, m.next, Len(model.vertices)) THEN [m EXCEPT !.pc = "done"]
        ELSE LET marker == VertexMarker(m.position, model.vertices[m.next],
                                        (1 \div model.size) * m.size)
             IN  [m EXCEPT !.pc = "tick",
                           !.log = Append(@, [face |-> 0, part |-> "vertex",
                                              edge |-> m.next, point |-> marker.point,
                                              block |-> marker.block])]

MeshRun(st, pd, pals, m) ==
    IF m.buildType = "points" THEN PointsRun(pd, m) ELSE FullRun(st, pd, pals, m)

\* model <modelPath> <texturePath> [size] [--type points] [--origin x,y,z]
CmdModel(file, position, size, buildType) ==
    /\ mesh.pc \in {"idle", "done"}
    /\ mesh.blocksPlaced < MaxPlaced
    /\ buildType = "full" => IsWhole(position)
    /\ mesh' = [mesh EXCEPT !.pc = "load", !.file = file, !.texture = <<>>,
                            !.position = position, !.size = size,
                            !.buildType = buildType, !.next = 1, !.lookups = 0,
                            !.log = <<>>, !.stopped = FALSE]
    /\ UNCHANGED <<settings, printData, task, jobs, ops, stopInfo, resizes, palettes, call, manager>>

\* const texture = await loadImage(textureLocation) returns
TextureLoaded(texture) ==
    /\ mesh.pc = "load"
    /\ mesh' = MeshRun(settings, printData, palettes, [mesh EXCEPT !.texture = texture])
    /\ UNCHANGED <<settings, printData, task, jobs, ops, stopInfo, resizes, palettes, call, manager>>

\* await bot.waitForTicks(1) returns, in setBlock or in the vertex loop
MeshTickReturns ==
    /\ mesh.pc = "tick"
    /\ mesh' = MeshRun(settings, printData, palettes,
                       IF mesh.buildType = "points"
                       THEN [mesh EXCEPT !.next = @ + 1]
                       ELSE [mesh EXCEPT !.blocksPlaced = @ + 1, !.next = @ + 1])
    /\ UNCHANGED <<settings, printData, task, jobs, ops, stopInfo, resizes, palettes, call, manager>>

\* The model builder beside a one-cell draw from chat and the stop command.
InitMesh ==
    /\ settings \in [chunkSize : 1..RaceChunk, commands : BOOLEAN,
                     mode : {"RGB"}, color : {"average"}]
    /\ printData = IdlePrintData
    /\ task = <<>>
    /\ jobs = [s \in Sources |-> IdleJob]
    /\ ops = [s \in Sources |-> <<>>]
    /\ stopInfo = [s \in Sources |-> NoStop]
    /\ resizes = 0
    /\ palettes = MeshPalettes
    /\ call = NoCall
    /\ mesh = IdleMesh
    /\ manager = NewManager

NextMesh ==
    \/ \E file \in MeshFiles, position \in BasePositions, size \in 1..MaxScale,
          buildType \in {"points", "full"} :
          CmdModel(file, position, size, buildType)
    \/ \E texture \in Textures : TextureLoaded(texture)
    \/ MeshTickReturns
    \/ CmdDraw("chat", <<"a">>, 1, 1)
    \/ Build("chat")
    \/ CmdStop

SpecMesh == InitMesh /\ [][NextMesh]_vars

(***************************************************************************)
(* Manual placement: what buildImage asks of the actuator for one cell,    *)
(* and what placeBlock and clearBlock then do to the world.  A world says  *)
(* what stands at the target, whether the bot is further than 5 blocks     *)
(* from it, whether the item is known and whether a block lies beneath.    *)
(***************************************************************************)
\* What getBlock can hand to the loop; "" stands for a swatch without block.
CellBlocks == {"", "air", "cave_air", "white", "coal"}

Worlds ==
    [target : {"none", "air", "stone"}, far : BOOLEAN, known : BOOLEAN,
     reference : BOOLEAN]

\* clearBlock: pathfind when far, dig unless nothing or air stands there
ClearBlock(world) ==
    (IF world.far THEN <<"pathfind">> ELSE <<>>)
    \o (IF world.target \in {"none", "air"} THEN <<>> ELSE <<"dig">>)

\* equip: nothing for an item mcData does not know, bot.equip otherwise
Equip(world) == IF world.known THEN <<"equip">> ELSE <<>>

\* Slip: no material is taken for air.
AirTypeNone(type) == FALSE

\* placeBlock: type === 'air' || type === 'cave_air' || type === 'void_air'
AirType(type) == type \in {"air", "cave_air", "void_air"}

\* placeBlock: clear the target, then equip and place against the block
\* beneath unless the type is air.  Once clearBlock has walked to the
\* target the bot is within reach.
PlaceBlock(world, type) ==
    ClearBlock(world)
    \o (IF AirType(type) THEN <<>>
        ELSE Equip(world) \o (IF world.reference THEN <<"place">> ELSE <<>>))

\* if (block) await actions.placeBlock(...); else await actions.clearBlock(...)
ManualCell(world, block) ==
    IF block # ""
    THEN [entry |-> "placeBlock", steps |-> PlaceBlock(world, block)]
    ELSE [entry |-> "clearBlock", steps |-> ClearBlock(world)]

InitPlace ==
    /\ settings = [chunkSize |-> 1, commands |-> FALSE, mode |-> "RGB", color |-> "average"]
    /\ printData = IdlePrintData
    /\ task = <<>>
    /\ jobs = [s \in Sources |-> IdleJob]
    /\ ops = [s \in Sources |-> <<>>]
    /\ stopInfo = [s \in Sources |-> NoStop]
    /\ resizes = 0
    /\ palettes = StoredPalettes
    /\ call \in [made : {FALSE}, block : CellBlocks, world : Worlds,
                 entry : {"none"}, steps : {<<>>}]
    /\ mesh = IdleMesh
    /\ manager = NewManager

\* One cell of a build with settings.commands off.
PlaceCell ==
    /\ ~call.made
    /\ ~settings.commands
    /\ call' = [call EXCEPT !.made = TRUE,
                            !.entry = ManualCell(call.world, call.block).entry,
                            !.steps = ManualCell(call.world, call.block).steps]
    /\ UNCHANGED <<settings, printData, task, jobs, ops, stopInfo, resizes, palettes, mesh, manager>>

NextPlace == PlaceCell

SpecPlace == InitPlace /\ [][NextPlace]_vars

(***************************************************************************)
(* The command line: CommandManager.parse on the tokens of a line, and     *)
(* the base position the draw handler derives from the flags.  A word      *)
(* carries the flag value its text stands for; a flag token carries its    *)
(* name and, written --name=value, its value.                              *)
(***************************************************************************)
MaxTail == 4

Word(value) == [dash |-> FALSE, name |-> "", inline |-> FALSE, value |-> value]

Flag(name) == [dash |-> TRUE, name |-> name, inline |-> FALSE, value |-> Absent]

FlagWith(name, value) == [dash |-> TRUE, name |-> name, inline |-> TRUE, value |-> value]

Number(n) == FlagValue("text", <<Token(FALSE, "number", n)>>)

Vector(x, y, z) ==
    FlagValue("text", <<Token(FALSE, "number", x), Token(FALSE, "number", y),
                        Token(FALSE, "number", z)>>)

\* img concrete 8x8: the positional arguments of the draw command
DrawHead ==
    << Word(FlagValue("text", <<Token(FALSE, "other", 0)>>)),
       Word(FlagValue("text", <<Token(FALSE, "other", 1)>>)),
       Word(FlagValue("text", <<Token(FALSE, "other", 2)>>)) >>

\* --origin, --offset, --origin=10,64,10, 10, 64, 10,64,10
TailTokens ==
    { Flag("origin"), Flag("offset"), FlagWith("origin", Vector(10, 64, 10)),
      Word(Number(10)), Word(Number(64)), Word(Vector(10, 64, 10)) }

Lines == {DrawHead} \cup {DrawHead \o tail : tail \in SeqsUpTo(TailTokens, MaxTail)}

FlagNames == {"origin", "offset"}

\* String(value).split(/[\s,]+/) of a flag value, as parseVectorFlag sees it
TokensOf(value) ==
    IF value.kind = "text" THEN value.tokens ELSE <<Token(FALSE, "other", 0)>>

\* extractFlags: a name given again turns the value into an array, whose
\* String() joins its members with commas.
Repeated(old, new) == FlagValue("text", TokensOf(old) \o TokensOf(new))

\* extractFlags: i + 1 < tokens.length && !tokens[i + 1].startsWith('--')
\* takes tokens[i + 1] as the value; the number of tokens taken.
ValueTokens(tokens, i) ==
    IF i + 1 <= Len(tokens) /\ ~tokens[i + 1].dash THEN 1 ELSE 0

RECURSIVE ExtractFrom(_, _, _, _)
\* The loop of extractFlags from token i on.
ExtractFrom(tokens, i, positional, flags) ==
    IF i > Len(tokens) THEN [positional |-> positional, flags |-> flags]
    ELSE IF ~tokens[i].dash
    THEN ExtractFrom(tokens, i + 1, Append(positional, tokens[i]), flags)
    ELSE LET taken == IF tokens[i].inline THEN 0 ELSE ValueTokens(tokens, i)
             value == IF tokens[i].inline THEN tokens[i].value
                      ELSE IF taken = 0 THEN FlagValue("bare", <<>>)
                      ELSE tokens[i + 1].value
             normal == NormalizeFlagValue(value)
             name  == tokens[i].name
         IN  ExtractFrom(tokens, i + 1 + taken, positional,
                         [flags EXCEPT ![name] =
                             IF @ = Absent THEN normal ELSE Repeated(@, normal)])

\* parse(input) after tokenize: the arguments and flags of the line
Parse(tokens) ==
    LET found == ExtractFrom(tokens, 1, <<>>, [name \in FlagNames |-> Absent])
    IN  [args |-> found.positional, flags |-> found.flags]

InitParse ==
    /\ settings = [chunkSize |-> 1, commands |-> TRUE, mode |-> "RGB", color |-> "average"]
    /\ printData = IdlePrintData
    /\ task = <<>>
    /\ jobs = [s \in Sources |-> IdleJob]
    /\ ops = [s \in Sources |-> <<>>]
    /\ stopInfo = [s \in Sources |-> NoStop]
    /\ resizes = 0
    /\ palettes = StoredPalettes
    /\ call \in [made : {FALSE}, line : Lines, args : {<<>>},
                 flags : {[name \in FlagNames |-> Absent]}, base : {InvalidVector}]
    /\ mesh = IdleMesh
    /\ manager = NewManager

\* The line is parsed and the draw handler determines its base position.
ParseLine ==
    /\ ~call.made
    /\ LET parsed == Parse(call.line)
       IN  call' = [call EXCEPT !.made = TRUE,
                                !.args = parsed.args,
                                !.flags = parsed.flags,
                                !.base = DetermineBasePosition(
                                            [origin |-> parsed.flags["origin"],
                                             offset |-> parsed.flags["offset"]],
                                            BotPosition)]
    /\ UNCHANGED <<settings, printData, task, jobs, ops, stopInfo, resizes, palettes, mesh, manager>>

NextParse == ParseLine

SpecParse == InitParse /\ [][NextParse]_vars

(***************************************************************************)
(* buildLine along one axis from 0 to n in the arithmetic of the build:    *)
(* i / distance and lerp are IEEE doubles with a 53 bit significand,       *)
(* rounded to nearest, ties to even.  From 0 the lerp is                   *)
(* (1 - t) * 0 + t * n = t * n, so one division and one multiplication     *)
(* round.  With t = M / 2^s, M the rounded significand of i / n, the exact *)
(* product is i + Delta / 2^s with Delta = M * n - i * 2^s, and the floor  *)
(* is i - 1 exactly when that product rounds to a double below i.          *)
(***************************************************************************)
MaxLine == 24

Significand == 52

RECURSIVE Pow2(_)
Pow2(e) == IF e = 0 THEN 1 ELSE 2 * Pow2(e - 1)

RECURSIVE PowMod(_, _)
\* 2^e modulo m
PowMod(e, m) == IF e = 0 THEN 1 % m ELSE (2 * PowMod(e - 1, m)) % m

RECURSIVE ShiftFrom(_, _, _)
\* The least k from k on with i * 2^k >= n: i / n = 2^-k * [1, 2)
ShiftFrom(i, n, k) == IF i * Pow2(k) >= n THEN k ELSE ShiftFrom(i, n, k + 1)

RECURSIVE ExponentOf(_)
\* floor(log2(i))
ExponentOf(i) == IF i < 2 THEN 0 ELSE 1 + ExponentOf(i \div 2)

\* Delta for t = i / n rounded: the remainder of i * 2^s by n, taken up or
\* down as the quotient rounds (a tie goes to the even quotient).
Delta(i, n) ==
    LET s      == Significand + ShiftFrom(i, n, 0)
        r      == (i * PowMod(s, n)) % n
        parity == (((i * PowMod(s, 2 * n)) % (2 * n)) - r) \div n
        up     == 2 * r > n \/ (2 * r = n /\ parity % 2 = 1)
    IN  IF up THEN n - r ELSE -r

\* t * n rounds to a double below i: it lies more than half a step under
\* i, the step below i being 2^(e - 52), or 2^(e - 53) for i a power of 2.
RoundsBelow(i, n) ==
    LET e     == ExponentOf(i)
        half  == ShiftFrom(i, n, 0) + e - 1 - (IF Pow2(e) = i THEN 1 ELSE 0)
    IN  /\ Delta(i, n) < 0
        /\ half >= 0 => -Delta(i, n) > Pow2(half)

\* Math.floor(lerp(0, n, i / n))
FloorLerpDouble(i, n) ==
    IF i = 0 THEN 0 ELSE IF RoundsBelow(i, n) THEN i - 1 ELSE i

\* buildLine from 0 to n along one axis: the floored coordinate of each sample
LinePositions(n) == [k \in 1..StepCount(n * n) |-> FloorLerpDouble(k - 1, n)]

InitLine ==
    /\ settings = [chunkSize |-> 1, commands |-> TRUE, mode |-> "RGB", color |-> "average"]
    /\ printData = IdlePrintData
    /\ task = <<>>
    /\ jobs = [s \in Sources |-> IdleJob]
    /\ ops = [s \in Sources |-> <<>>]
    /\ stopInfo = [s \in Sources |-> NoStop]
    /\ resizes = 0
    /\ palettes = StoredPalettes
    /\ call \in [made : {FALSE}, n : 1..MaxLine, axis : 1..3, positions : {<<>>}]
    /\ mesh = IdleMesh
    /\ manager = NewManager

\* buildLine from (0, 0, 0) to n along the axis
SampleLine ==
    /\ ~call.made
    /\ call' = [call EXCEPT !.made = TRUE,
                            !.positions =
                               [k \in 1..Len(LinePositions(call.n)) |->
                                   [axis \in 1..3 |->
                                       IF axis = call.axis
                                       THEN LinePositions(call.n)[k]
                                       ELSE 0]]]
    /\ UNCHANGED <<settings, printData, task, jobs, ops, stopInfo, resizes, palettes, mesh, manager>>

NextLine == SampleLine

SpecLine == InitLine /\ [][NextLine]_vars

(***************************************************************************)
(* Properties of the scan order.                                           *)
(***************************************************************************)
\* The cells <<x, z>> of its current build that source s has issued, in order.
Cells(s) ==
    LET log == FrameOps(s, jobs[s].i)
    IN  [k \in 1..Len(log) |-> <<log[k][2], log[k][3]>>]

IsPrefix(a, b) == Len(a) <= Len(b) /\ \A k \in 1..Len(a) : a[k] = b[k]

\* The build of source s waits for the tick after its last chunk-row: every
\* voxel has been processed and the build ends when the tick returns.
AtLastTick(s) ==
    LET J == jobs[s]
    IN  /\ J.pc = "tick"
        /\ ~RowInRange(NextRow(J.z, J.zDirection), J.h)
        /\ NextChunk(J.x, settings.chunkSize) >= J.w

OnExample(s) ==
    /\ Running(s)
    /\ jobs[s].w = Example.w
    /\ jobs[s].h = Example.h
    /\ settings.chunkSize = Example.c

ExampleOrderClaimed ==
    << <<0, 0>>, <<0, 1>>, <<0, 2>>, <<1, 0>>, <<1, 1>>, <<1, 2>>,
       <<2, 2>>, <<2, 1>>, <<2, 0>>, <<3, 2>>, <<3, 1>>, <<3, 0>> >>

ExampleOrderBuilt ==
    << <<0, 0>>, <<1, 0>>, <<0, 1>>, <<1, 1>>, <<0, 2>>, <<1, 2>>,
       <<2, 2>>, <<3, 2>>, <<2, 1>>, <<3, 1>>, <<2, 0>>, <<3, 0>> >>

FollowsOrder(s, order) ==
    /\ IsPrefix(Cells(s), order)
    /\ AtLastTick(s) => /\ Cells(s) = order
                        /\ Processed(s) = Len(order)
                        /\ printData.placedBlocks = Len(order)

\* C1 as stated: on the 4x3 grid with chunk size 2 the cells are visited
\* column by column, (0,0),(0,1),(0,2),(1,0),..., and 12 voxels have been
\* counted when the last one is processed.
C1_ClaimedOrder == \A s \in Sources : OnExample(s) => FollowsOrder(s, ExampleOrderClaimed)

\* C1 as amended: on the 4x3 grid with chunk size 2 the cells are visited
\* chunk-row by chunk-row, (0,0),(1,0),(0,1),(1,1),(0,2),(1,2),(2,2),(3,2),
\* (2,1),(3,1),(2,0),(3,0), and 12 voxels have been counted when the last
\* one is processed.
C1_ExampleOrder == \A s \in Sources : OnExample(s) => FollowsOrder(s, ExampleOrderBuilt)

C1_Witness ==
    \E s \in Sources : OnExample(s) /\ AtLastTick(s) /\ Len(Cells(s)) = 12

AllCells(w, h) == {<<x, z>> : x \in 0..(w - 1), z \in 0..(h - 1)}

\* C2: with a fixed chunk size a build never processes a cell twice or a
\* cell outside the grid, and when its last voxel has been processed it has
\* processed every cell of the grid, so width * height voxels are counted.
C2_EveryCellOnce ==
    \A s \in Sources :
        Running(s) =>
            LET J == jobs[s]
                c == Cells(s)
            IN  /\ \A k \in 1..Len(c) : c[k] \in AllCells(J.w, J.h)
                /\ \A k, l \in 1..Len(c) : c[k] = c[l] => k = l
                /\ AtLastTick(s) =>
                      /\ {c[k] : k \in 1..Len(c)} = AllCells(J.w, J.h)
                      /\ Processed(s) = J.w * J.h
                      /\ printData.placedBlocks = J.w * J.h

C2_Witness ==
    \E s \in Sources :
        /\ AtLastTick(s)
        /\ jobs[s].w >= 3
        /\ jobs[s].h >= 2
        /\ settings.chunkSize = 2
        /\ Len(Cells(s)) = jobs[s].w * jobs[s].h

\* The first column of the chunk that holds column k, for chunk size c.
ChunkStart(k, c) == (k \div c) * c

\* The last column of the chunk-row that holds column k.
RowEnd(k, c, w) == IF ChunkStart(k, c) + c < w THEN ChunkStart(k, c) + c - 1 ELSE w - 1

\* C3: with a fixed chunk size c, the columns of a chunk-row are processed
\* in increasing x order starting at the chunk's first column, a cell with
\* another z or of another chunk is processed only after the chunk-row is
\* complete, and the tick wait is reached only with the chunk-row complete.
C3_ChunkRowOrder ==
    \A s \in Sources :
        Running(s) =>
            LET J  == jobs[s]
                c  == Cells(s)
                cs == settings.chunkSize
            IN  /\ \A k \in 1..Len(c) :
                      IF c[k][1] > ChunkStart(c[k][1], cs)
                      THEN k > 1 /\ c[k - 1] = <<c[k][1] - 1, c[k][2]>>
                      ELSE k > 1 => /\ c[k - 1][1] = RowEnd(c[k - 1][1], cs, J.w)
                                    /\ c[k - 1] # c[k]
                /\ (J.pc = "tick" /\ Len(c) > 0) =>
                      c[Len(c)][1] = RowEnd(c[Len(c)][1], cs, J.w)

C3_Witness ==
    \E s \in Sources :
        /\ Running(s)
        /\ settings.chunkSize = 3
        /\ jobs[s].w = 4
        /\ Len(Cells(s)) >= 5
        /\ Cells(s)[3] = <<2, 0>>
        /\ Cells(s)[4] = <<0, 1>>

\* The sweep direction of the chunk that holds column k: up in the first
\* chunk, then alternating.
SweepOf(k, c) == IF (k \div c) % 2 = 0 THEN 1 ELSE -1

\* C4: inside a chunk z moves one row at a time in the chunk's direction,
\* which alternates from chunk to chunk starting upwards at z = 0; a chunk
\* is left only at the far end of its sweep and the next chunk starts at
\* that same z; the last chunk too is swept to its far end; whatever the
\* height.
C4_Serpentine ==
    \A s \in Sources :
        Running(s) =>
            LET J  == jobs[s]
                c  == Cells(s)
                cs == settings.chunkSize
            IN  /\ Len(c) > 0 => c[1] = <<0, 0>>
                /\ \A k \in 2..Len(c) :
                      IF ChunkStart(c[k][1], cs) = ChunkStart(c[k - 1][1], cs)
                      THEN \/ c[k][2] = c[k - 1][2]
                           \/ c[k][2] = c[k - 1][2] + SweepOf(c[k][1], cs)
                      ELSE /\ ChunkStart(c[k][1], cs) = ChunkStart(c[k - 1][1], cs) + cs
                           /\ c[k][2] = c[k - 1][2]
                           /\ c[k][2] = IF SweepOf(c[k][1], cs) = 1 THEN 0 ELSE J.h - 1
                /\ Len(c) > 0 => J.zDirection = SweepOf(c[Len(c)][1], cs)
                /\ AtLastTick(s) =>
                      c[Len(c)][2] = IF SweepOf(c[Len(c)][1], cs) = 1 THEN J.h - 1 ELSE 0

C4_Witness ==
    \E s \in Sources :
        /\ Running(s)
        /\ jobs[s].h >= 2
        /\ \E k \in 1..Len(Cells(s)) :
              /\ Cells(s)[k][1] \div settings.chunkSize = 2
              /\ Cells(s)[k][2] = 1

(***************************************************************************)
(* Properties of progress accounting, cancellation and exclusion.          *)
(***************************************************************************)
\* C5: placedBlocks never exceeds totalBlocks, whatever commands arrive
\* while a build is suspended.
C5_PlacedWithinTotal == printData.placedBlocks <= printData.totalBlocks

\* C6: once a stop command has been accepted during a command's build, that
\* command issues no further voxel operation, in this frame or a later one.
C6_NoVoxelAfterStop ==
    [][\A s \in Sources : stopInfo[s].seen => Len(ops'[s]) <= Len(ops[s])]_vars

\* The current build of source s returns in this step (it does not throw).
BuildReturns(s) ==
    /\ Running(s)
    /\ \/ jobs'[s].pc = "idle" /\ jobs'[s].result # "error"
       \/ jobs'[s].i # jobs[s].i

\* C7: a build during which a stop command was accepted before its last
\* voxel had been processed returns {cancelled: true} and has processed
\* fewer than width * height voxels.
C7_StopGivesCancelled ==
    [][\A s \in Sources :
          (/\ BuildReturns(s)
           /\ stopInfo[s].seen
           /\ stopInfo[s].frame = jobs[s].i
           /\ ~stopInfo[s].late)
          => /\ jobs'[s].pc = "idle"
             /\ jobs'[s].result = "cancelled"
             /\ Len(FrameOps(s, jobs[s].i)) < jobs[s].w * jobs[s].h]_vars

\* C8: no two builds are in progress at the same time.
C8_OneBuildAtATime ==
    \A s, t \in Sources : (Running(s) /\ Running(t)) => s = t

\* C9: while a build for which cancellation is requested is still in
\* progress, cancelRequested stays true and the build issues no voxel.
C9_CancelNeverResumes ==
    [][\A s \in Sources :
          (/\ Running(s)
           /\ printData.cancelRequested
           /\ jobs'[s].pc \in {"op", "tick"}
           /\ jobs'[s].i = jobs[s].i)
          => /\ printData'.cancelRequested
             /\ ops'[s] = ops[s]]_vars

\* The key names a palette that palettes.json does not hold.
HasUnknownName(key) == \E k \in 1..Len(key) : key[k] \notin DOMAIN palettes

\* Source s gives a draw or gif command with palette argument key.
Commands(s, key) ==
    \E w \in 1..MaxWidth, h \in 1..MaxHeight :
        \/ CmdDraw(s, key, w, h)
        \/ \E n \in 1..MaxFrames : CmdGif(s, key, w, h, n)

C17_ProgressCountsCells ==
    \A s \in Sources :
        Running(s) =>
            /\ printData.placedBlocks = Processed(s)
            /\ printData.totalBlocks = jobs[s].w * jobs[s].h

\* The chunk-rows of its current build whose last column source s has
\* finished processing.
RowsProcessed(s) ==
    Cardinality({k \in 1..Processed(s) :
                    Cells(s)[k][1] = RowEnd(Cells(s)[k][1], settings.chunkSize, jobs[s].w)})

\* The tick waits the current build of source s has begun.
TicksBegun(s) == jobs[s].ticks + (IF jobs[s].pc = "tick" THEN 1 ELSE 0)

CeilDiv(a, b) == (a + b - 1) \div b

\* C18: with a fixed chunk size c, a build has begun exactly one tick wait
\* for each chunk-row whose last column it has processed, so none between
\* two columns of a chunk-row; while it waits, z is still the z of the
\* chunk-row just processed; and when the last wait begins the build has
\* waited ceil(width / c) * height times.
C18_OneTickPerChunkRow ==
    \A s \in Sources :
        Running(s) =>
            LET J == jobs[s]
                c == Cells(s)
            IN  /\ TicksBegun(s) = RowsProcessed(s)
                /\ J.pc = "tick" =>
                      /\ Len(c) > 0
                      /\ Processed(s) = Len(c)
                      /\ c[Len(c)] = <<RowEnd(c[Len(c)][1], settings.chunkSize, J.w), J.z>>
                /\ AtLastTick(s) =>
                      TicksBegun(s) = CeilDiv(J.w, settings.chunkSize) * J.h

C18_Witness ==
    \E s \in Sources :
        /\ AtLastTick(s)
        /\ ~settings.commands
        /\ jobs[s].w = 4
        /\ jobs[s].h = 2
        /\ settings.chunkSize = 3
        /\ jobs[s].ticks = 3

\* C19: a build during which a stop command was accepted ends only after
\* the chunk-row that was in progress has been finished: the last cell it
\* issued is the last column of its chunk-row.
C19_StopAfterCurrentChunk ==
    [][\A s \in Sources :
          (/\ BuildReturns(s)
           /\ stopInfo[s].seen
           /\ stopInfo[s].frame = jobs[s].i
           /\ Len(Cells(s)) > 0)
          => LET last == Cells(s)[Len(Cells(s))]
             IN  last[1] = RowEnd(last[1], settings.chunkSize, jobs[s].w)]_vars

(***************************************************************************)
(* Properties of the colour matcher.                                       *)
(***************************************************************************)
\* The palette the last call resolved, and the distance of its k-th swatch.
CallPalette == ParsePaletteString(palettes, call.key)

CallDistance(k) ==
    Distance(settings, call.mode,
             <<call.sample[1], call.sample[2], call.sample[3]>>,
             CallPalette[k][settings.color])

\* The swatches at minimal distance from the sample of the last call.
Nearest ==
    {k \in 1..Len(CallPalette) :
        \A l \in 1..Len(CallPalette) : CallDistance(k) <= CallDistance(l)}

\* C10: when several swatches are at the minimal distance from the sample,
\* the block returned is that of the lowest-indexed one, under both metrics.
C10_TieKeepsEarlier ==
    (call.made /\ call.sample[4] # 0 /\ Cardinality(Nearest) >= 2)
        => call.block = CallPalette[CHOOSE k \in Nearest : \A l \in Nearest : k <= l].block

\* C11: for a non-empty resolved palette and a sample with alpha # 0, the
\* block returned is that of a swatch no farther from the sample than any
\* swatch of the palette, under the active metric and colour channel.
C11_NearestSwatch ==
    (call.made /\ call.sample[4] # 0 /\ Len(CallPalette) > 0)
        => \E k \in Nearest : call.block = CallPalette[k].block

C11_Witness ==
    /\ call.made
    /\ call.sample[4] = 1
    /\ settings.mode = "LAB"
    /\ settings.color = "dominant"
    /\ Len(CallPalette) = 3
    /\ Nearest = {2}
    /\ call.block = CallPalette[2].block

\* C12: a call of getBlockFromColor whose key holds an unknown palette name
\* fails with UnknownPalette and computes no colour distance.
C12_UnknownPaletteFails ==
    (call.made /\ HasUnknownName(call.key))
        => /\ call.block = "UnknownPalette"
           /\ call.distances = 0

\* C14: a sample with alpha = 0 resolves to 'air', whatever the palette,
\* the metric, the colour channel and r, g, b.
C14_ClearAlphaGivesAir ==
    (call.made /\ call.sample[4] = 0) => call.block = "air"

C14_Witness ==
    /\ call.made
    /\ call.sample = <<1, 1, 1, 0>>
    /\ settings.mode = "LAB"
    /\ settings.color = "dominant"
    /\ Len(CallPalette) = 3
    /\ call.block = "air"

\* C15 as stated: with a palette of exactly one swatch the block returned
\* is that swatch's, for every sample (r, g, b, alpha).
C15_SingleSwatchAlways ==
    (call.made /\ Len(CallPalette) = 1) => call.block = CallPalette[1].block

\* C15 as amended: with a palette of exactly one swatch the block returned
\* is that swatch's for every sample with alpha # 0, however far its
\* colour, and 'air' for every sample with alpha = 0.
C15_SingleSwatchOpaque ==
    (call.made /\ Len(CallPalette) = 1)
        => call.block = IF call.sample[4] = 0 THEN "air" ELSE CallPalette[1].block

C15_Witness ==
    /\ call.made
    /\ Len(CallPalette) = 1
    /\ call.sample = <<0, 0, 0, 255>>
    /\ CallPalette[1].block = "white"
    /\ call.block = "white"

\* C16: the key a+b resolves to the swatches of palette a followed by the
\* swatches of palette b, in their order and with repeats kept, and the
\* call leaves the stored palettes as they were.
C16_Concatenation ==
    [][(~call.made /\ call'.made /\ call.key = <<"a", "b">>)
          => /\ call'.palette = palettes["a"] \o palettes["b"]
             /\ palettes' = palettes]_vars

C16_Witness ==
    /\ call.made
    /\ call.key = <<"a", "b">>
    /\ Len(palettes["a"]) = 2
    /\ palettes["a"][1] # palettes["a"][2]
    /\ palettes["a"][2] = palettes["b"][1]
    /\ call.palette = <<palettes["a"][1], palettes["a"][2], palettes["b"][1]>>

(***************************************************************************)
(* Properties of the image sampler.                                        *)
(***************************************************************************)
\* C20: for a static image of 3 channels, getBlock reads alpha = 255 at
\* every pixel (coordinates below 1.0), so no pixel of such an image
\* resolves to 'air'.
C20_OpaqueWithoutAlphaChannel ==
    (call.made /\ ~call.gif /\ call.image.channels = 3 /\ call.x[1] < call.x[2])
        => /\ call.sample[4] = 255
           /\ call.block # "air"

\* C21: whatever the coordinates, 1.0 included, the pixel index getBlock
\* reads lies inside [0, width - 1] x [0, height - 1].
C21_PixelIndexInRange ==
    call.made => /\ call.px \in 0..(call.image.width - 1)
                 /\ call.pz \in 0..(call.image.height - 1)

(***************************************************************************)
(* Properties of the mesh rasterizer.                                      *)
(***************************************************************************)
MeshDone == mesh.pc = "done"

FullDone == MeshDone /\ mesh.buildType = "full"

\* The build of the face on one vertex twice: a line from (0, 0, 0) to itself.
DegenerateLine ==
    FullDone /\ mesh.file = FileDot /\ mesh.position = <<0, 0, 0>>

\* C22: the line from (0, 0, 0) to (0, 0, 0) gives exactly one placement,
\* at (0, 0, 0), whatever the UVs of its ends select in the texture.
C22_DegenerateLineOnePlacement ==
    DegenerateLine => /\ Len(mesh.log) = 1
                      /\ mesh.log[1].point = <<0, 0, 0>>

\* C23: every sampled point of a line gives one voxel operation, a placement
\* or a clear: a finished build has issued as many operations as it has
\* taken samples.
C23_OneOperationPerSample ==
    FullDone => Len(mesh.log) = mesh.lookups

\* The edges of face index that have an operation in the log.
EdgesDrawn(index) ==
    {mesh.log[k].edge : k \in {j \in 1..Len(mesh.log) :
                                  mesh.log[j].face = index /\ mesh.log[j].part = "edge"}}

\* C24: after its two triangles a quad A, B, C, D has all four of its edges
\* A-B, B-C, C-D and D-A drawn as lines.
C24_QuadHasFourEdges ==
    (FullDone /\ mesh.file = FileQuad /\ mesh.texture = TexWhite)
        => EdgesDrawn(1) = 1..4

\* Operation j of the log belongs before operation k in the face loop.
InFaceOrder(j, k) ==
    \/ mesh.log[j].face < mesh.log[k].face
    \/ /\ mesh.log[j].face = mesh.log[k].face
       /\ \/ mesh.log[j].part = "fill"
          \/ /\ mesh.log[k].part = "edge"
             /\ mesh.log[j].edge <= mesh.log[k].edge

\* The two triangles (0,0,0),(1,0,0),(1,0,1) and (1,0,1),(0,0,1),(0,0,0) with
\* an opaque texture at size 1: the points of the operations, worked by hand.
TwoTrianglesBuilt ==
    << <<0, 0, 0>>, <<0, 0, 0>>, <<0, 0, 0>>, <<1, 0, 0>>,
       <<1, 0, 1>>, <<0, 0, 0>>, <<1, 0, 1>>, <<0, 0, 1>> >>

OnTwoTriangles ==
    /\ FullDone
    /\ mesh.file = FileTwo
    /\ mesh.texture = TexWhite
    /\ mesh.size = 1
    /\ mesh.position = <<0, 0, 0>>

\* C25: in a full build the operations come face by face in file order,
\* within a face the fill first and then the edges in order; no operation
\* of a face follows one of a later face.
C25_FaceByFace ==
    /\ mesh.buildType = "full"
          => \A j, k \in 1..Len(mesh.log) : j < k => InFaceOrder(j, k)
    /\ OnTwoTriangles
          => [k \in 1..Len(mesh.log) |-> mesh.log[k].point] = TwoTrianglesBuilt

C25_Witness ==
    /\ OnTwoTriangles
    /\ \E j, k \in 1..Len(mesh.log) :
          /\ mesh.log[j].face = 1 /\ mesh.log[j].part = "edge"
          /\ mesh.log[k].face = 2 /\ mesh.log[k].part = "fill"

\* C26: a face reference without UV index is built with the UV (0, 0),
\* whatever vt rows the file has.
C26_MissingIndexUsesOrigin ==
    (mesh.buildType = "full" /\ mesh.pc \in {"tick", "done"})
        => LET model == ParseModelData(mesh.file)
               faces == SelectSeq(mesh.file, LAMBDA row : row.kind = "f")
           IN  \A f \in 1..Len(faces) : \A k \in 1..Len(faces[f].refs) :
                  faces[f].refs[k].vt = NoIndex
                      => FaceUVs(model, f)[k] = <<0, 0, 1>>

\* The whole number below h halves.
FloorOfHalves(h) == CHOOSE n \in -(h * h + 1)..(h * h + 1) : 2 * n <= h /\ h < 2 * n + 2

\* The v rows of the file of the build.
FileVertices ==
    LET rows == SelectSeq(mesh.file, LAMBDA row : row.kind = "v")
    IN  [k \in 1..Len(rows) |-> rows[k].at]

\* C27: a points build issues one placement per vertex, in vertex order, at
\* floor(origin + vertex * scale) with light_blue_concrete, and samples no
\* texture, looks up no palette and voxelizes no face or line.
C27_PointsOnly ==
    mesh.buildType = "points"
        => /\ mesh.lookups = 0
           /\ Len(mesh.log) <= Len(FileVertices)
           /\ MeshDone => Len(mesh.log) = Len(FileVertices)
           /\ \A k \in 1..Len(mesh.log) :
                 /\ mesh.log[k].part = "vertex"
                 /\ mesh.log[k].edge = k
                 /\ mesh.log[k].block = "light_blue_concrete"
                 /\ mesh.log[k].point =
                       [axis \in 1..3 |->
                           FloorOfHalves(mesh.position[axis]
                                         + 2 * FileVertices[k][axis] * mesh.size)]

C27_Witness ==
    /\ MeshDone
    /\ mesh.buildType = "points"
    /\ mesh.file = FileQuad
    /\ mesh.position = <<1, 0, -1>>
    /\ mesh.size = 2
    /\ Len(mesh.log) = 4
    /\ mesh.log[3].point = <<2, 0, 1>>

\* The operations the build of the log's file, texture and size issues when
\* nothing disturbs it.
UndisturbedLog ==
    LET free == [mesh EXCEPT !.next = 1, !.lookups = 0, !.log = <<>>]
        RECURSIVE Through(_)
        Through(m) ==
            LET after == MeshRun(settings, IdlePrintData, palettes, m)
            IN  IF after.pc = "done" THEN after.log
                ELSE Through(IF after.buildType = "points"
                             THEN [after EXCEPT !.next = @ + 1]
                             ELSE [after EXCEPT !.blocksPlaced = @ + 1, !.next = @ + 1])
    IN  Through(free)

\* C28: no step of a mesh build changes a field of printData, and a build
\* that a stop command arrived in issues the operations it issues without.
C28_OutsideTheScheduler ==
    /\ [][mesh' # mesh /\ mesh'.stopped = mesh.stopped => printData' = printData]_vars
    /\ [](MeshDone => mesh.log = UndisturbedLog)

C28_Witness ==
    /\ MeshDone
    /\ mesh.stopped
    /\ mesh.buildType = "full"
    /\ Len(mesh.log) >= 2

(***************************************************************************)
(* Properties of manual placement.                                         *)
(***************************************************************************)
StepsTaken == {call.steps[k] : k \in 1..Len(call.steps)}

Malformed(value, allowRelative) ==
    /\ value # Absent
    /\ ~ /\ value.kind = "text"
         /\ Len(value.tokens) = 3
         /\ \A k \in 1..3 :
               /\ value.tokens[k].rest \in {"", "number"}
               /\ value.tokens[k].rest = "" => value.tokens[k].tilde
               /\ value.tokens[k].tilde => allowRelative

\* The console gives a one-cell draw or gif with these vector flags as typed.
CommandsAt(origin, offset) ==
    \/ CmdDrawAt("console", <<"a">>, 1, 1, ExtractFlags(origin, offset))
    \/ CmdGifAt("console", <<"a">>, 1, 1, 1, ExtractFlags(origin, offset))

\* C30: a draw or gif command with a malformed --origin or --offset is over
\* at once with the vector error: no image is loaded, no build starts,
\* printData stays idle and no voxel operation is issued.
C30_BadVectorFailsFast ==
    [][jobs'["console"] # jobs["console"] =>
          \A origin \in RawFlags, offset \in RawFlags :
             ((Malformed(origin, TRUE) \/ Malformed(offset, FALSE))
                 /\ CommandsAt(origin, offset))
             => /\ jobs'["console"].pc = "idle"
                /\ jobs'["console"].result = "Invalid vector"
                /\ printData' = IdlePrintData
                /\ ops'["console"] = <<>>]_vars

(***************************************************************************)
(* Properties of the image load.                                           *)
(***************************************************************************)
\* No image, or pixels whose shape has neither 3 nor 4 axes.
BadImage(shape) == shape = Unreadable \/ Len(shape) \notin {3, 4}

\* C31: when the image cannot be read or decoded, or its shape has neither
\* 3 nor 4 axes, the command is over with an error before scheduling
\* begins: startPrintTask is not called, printData stays idle, the task
\* list is untouched and no voxel operation is issued.
C31_BadImageFailsFast ==
    [][jobs["console"].pc = "load" =>
          \A shape \in Shapes :
             (BadImage(shape) /\ ImageArrives("console", shape))
             => /\ jobs'["console"].pc = "idle"
                /\ jobs'["console"].result
                      \in {"Unable to load image", "Unsupported image format."}
                /\ printData = IdlePrintData
                /\ printData' = IdlePrintData
                /\ task' = <<>>
                /\ ops'["console"] = <<>>]_vars

C31_Witness ==
    /\ jobs["console"].pc = "idle"
    /\ jobs["console"].result = "Unsupported image format."
    /\ printData = IdlePrintData

(***************************************************************************)
(* Properties of the command line.                                         *)
(***************************************************************************)
\* draw img concrete 8x8 --origin 10 64 10
LongFormOrigin ==
    DrawHead \o <<Flag("origin"), Word(Number(10)), Word(Number(64)), Word(Number(10))>>

\* C32: for draw img concrete 8x8 --origin 10 64 10 the positional
\* arguments are img, concrete, 8x8 and the build is anchored at (10, 64, 10).
C32_LongFormVector ==
    (call.made /\ call.line = LongFormOrigin)
        => /\ call.args = DrawHead
           /\ call.base = [ok |-> TRUE, at |-> <<10, 64, 10>>]

(***************************************************************************)
(* Properties of the line sampling.                                        *)
(***************************************************************************)
\* C33: a line of whole length n along an axis is sampled n times, at
\* A, A + 1, ..., A + n - 1 in that order; the end B is not sampled.
C33_AxisLinePositions ==
    call.made
        => /\ Len(call.positions) = call.n
           /\ \A k \in 1..Len(call.positions) :
                 call.positions[k] =
                    [axis \in 1..3 |-> IF axis = call.axis THEN k - 1 ELSE 0]

(***************************************************************************)
(* Termination of a build.                                                 *)
(***************************************************************************)
\* C34: with every actuator call and tick wait returning, a build that has
\* begun finishes: its handler returns and printData is idle again, whether
\* or not stop arrives and whatever positive chunk size is set meanwhile.
\* No build comes near the number of operations the model stops at.
C34_BuildFinishes ==
    /\ Running("console")
          ~> (jobs["console"].pc = "idle" /\ printData = IdlePrintData)
    /\ [](Len(ops["console"]) <= OpsCap("console"))

\* The chunk size was changed while the build was suspended: a column has
\* been swept again.
C34_Witness ==
    /\ Running("console")
    /\ resizes = 1
    /\ Len(FrameOps("console", jobs["console"].i)) > jobs["console"].w * jobs["console"].h

(***************************************************************************)
(* Properties of the stop command.                                         *)
(***************************************************************************)
\* C35: a stop given while nothing is printing, or while cancellation is
\* already requested, leaves printData as it is; cancelRequested is never
\* set while idle, and a build that starts after a stop given before its
\* start is not cancelled until another stop arrives.
C35_IdleStopIgnored ==
    /\ [][((~printData.isPrinting \/ printData.cancelRequested) /\ CmdStop)
             => printData' = printData]_vars
    /\ [](~printData.isPrinting => ~printData.cancelRequested)
    /\ [](\A s \in Sources :
             (Running(s) /\ stopInfo[s].early /\ ~stopInfo[s].seen)
                 => ~printData.cancelRequested)

C35_Witness ==
    /\ Running("console")
    /\ stopInfo["console"].early
    /\ ~stopInfo["console"].seen
    /\ ~printData.cancelRequested
    /\ jobs["console"].pc = "op"
    /\ Len(ops["console"]) = 1

(***************************************************************************)
(* Properties of the frame loop of the gif command.                        *)
(***************************************************************************)
\* C36: the frames of a gif command are built one at a time in list order:
\* the operations of frame i all come after those of frame i - 1, which was
\* swept in full; every operation of frame i lies i * spacing blocks above
\* the base position; and a frame is only in progress if no earlier frame
\* returned cancelled.
C36_FramesInListOrder ==
    \A s \in Sources :
        Running(s) =>
            LET J == jobs[s]
            IN  /\ Len(J.returned) = J.i
                /\ \A k \in 1..Len(J.returned) : ~J.returned[k]
                /\ \A k \in 1..Len(ops[s]) :
                      /\ ops[s][k][1] \in 0..J.i
                      /\ ops[s][k][4] = ops[s][k][1] * J.spacing
                      /\ \A l \in k..Len(ops[s]) : ops[s][k][1] <= ops[s][l][1]
                /\ \A f \in 0..(J.i - 1) : Len(FrameOps(s, f)) = J.w * J.h

C36_Witness ==
    /\ jobs["console"].pc = "op"
    /\ jobs["console"].i = 1
    /\ jobs["console"].spacing = 2
    /\ Len(FrameOps("console", 0)) = 1
    /\ ops["console"][Len(ops["console"])] = <<1, 0, 0, 2>>

(***************************************************************************)
(* Properties of the print state around a build.                           *)
(***************************************************************************)
\* The entries of bot.task that builds of the given kind have pushed.
TaskEntries(kind) == Cardinality({k \in 1..Len(task) : task[k] = kind})

\* C37: printData.isPrinting is true exactly while a build has started and
\* not yet settled; when a build settles (completed, cancelled, or by an
\* actuator call that throws) printData is idle again, and bot.task holds
\* one entry per build in progress and no other.
C37_PrintingExactlyWhileBuilding ==
    /\ [](printData.isPrinting <=> \E s \in Sources : Running(s))
    /\ [](\A kind \in {"draw", "gif"} :
             TaskEntries(kind)
                 = Cardinality({s \in Sources : Running(s) /\ jobs[s].kind = kind}))
    /\ [][\A s \in Sources :
             (Running(s) /\ ~Running(s)') => printData' = IdlePrintData]_vars

(***************************************************************************)
(* Properties of the chat listener.                                        *)
(***************************************************************************)
\* C38: a chat message whose sender is not in settings.bosses is not run as
\* a command: the step leaves settings, printData, the task list, every
\* handler invocation and every log of voxel operations as they were; and
\* when settings.bosses is empty no chat message ever starts anything.
C38_OnlyBossesCommand ==
    /\ [][\A username \in Users, cmd \in ChatCommands :
             (username \notin settings.bosses /\ ChatMessage(username, cmd))
                 => UNCHANGED <<settings, printData, task, jobs, ops, resizes,
                                palettes>>]_vars
    /\ [](settings.bosses = {}
             => /\ printData = IdlePrintData
                /\ \A s \in Sources : jobs[s] = IdleJob /\ ops[s] = <<>>)

C38_Witness ==
    /\ call.made
    /\ call.username = "Boss"
    /\ settings.bosses = {"boss"}
    /\ Running("chat")
    /\ Len(ops["chat"]) >= 2

(***************************************************************************)
(* Properties of the command registry.                                     *)
(***************************************************************************)
\* What register must refuse, stated on the definition and the maps.
Refused(definition) ==
    \/ definition.name \in {NoName, ""}
    \/ ToLowerCase(definition.name) \in DOMAIN manager.commands
    \/ \E k \in DOMAIN definition.aliases :
          ToLowerCase(definition.aliases[k]) \in DOMAIN manager.aliasToName
    \/ ~definition.handler

\* C39: in every state of the registry, register with a definition that has
\* no name, a registered name, a registered alias or no handler throws and
\* leaves the command map and the alias map exactly as they were.
C39_RegisterAtomic ==
    \A definition \in Definitions :
        Refused(definition)
            => LET after == Registered(manager, definition)
               IN  /\ after.thrown # "none"
                   /\ after.commands = manager.commands
                   /\ after.aliasToName = manager.aliasToName

C39_Witness ==
    /\ manager.thrown = "Command is missing a handler."
    /\ DOMAIN manager.commands = {"a"}
    /\ DOMAIN manager.aliasToName = {"b"}

\* C40: every alias of a registered command resolves through find, in any
\* letter case, to that command, every registered name resolves to the
\* command of that name, and a later register call changes nothing that find
\* resolved before.
C40_AliasesResolve ==
    /\ [](\A name \in DOMAIN manager.commands :
             LET command == manager.commands[name]
             IN  /\ command.name = name
                 /\ \A text \in Texts :
                       /\ ToLowerCase(text) = name => Find(manager, text) = command
                       /\ (\E k \in DOMAIN command.aliases :
                              command.aliases[k] = ToLowerCase(text))
                             => Find(manager, text) = command)
    /\ [][\A text \in Texts :
             Find(manager, text) # NoCommand
                 => Find(manager', text) = Find(manager, text)]_vars

=============================================================================
